---- MODULE Spec2Model ----
(***************************************************************************)
(* Link resolution and click tracking of the URL shortener:                *)
(* track.controller (redirectHandler), links.controller (createLink,       *)
(* deleteLink), webhook.service (sendWebhook) and the route table of       *)
(* app.js, over the Link and Click tables of the relational store.         *)
(* A GET request here is one the global middleware (requestLogger,         *)
(* rateLimiter) has passed on to the router. Every store call may fail.    *)
(* The specifications share the variables: Spec (link resolution),         *)
(* LinkSpec and OwnerSpec (the create, update and delete routes of         *)
(* links.controller and admin.controller), GeoSpec (lookup of geo.service  *)
(* and its cache), RouteSpec (the GET routes of app.js), PageSpec          *)
(* (pagination of GET /api/links), AdminSpec (admin users), ResetSpec      *)
(* (password reset), SubSpec (subscriptions) and SchedSpec (scheduled      *)
(* reports).                                                               *)
(***************************************************************************)
EXTENDS Integers, Sequences, FiniteSets, TLC

\* ------------------------------------------------------------------------
\* Bounds of the model
\* ------------------------------------------------------------------------
MaxTime == 2        \* the clock runs over 0..MaxTime
MaxReq == 2         \* number of GET requests, which may overlap
MaxLinks == 1       \* number of Link rows ever created
MaxRows == 2        \* the same, where only link management runs
MaxLookups == 2     \* number of calls of lookup in progress at a time
CacheMax == 2       \* entries the geo cache holds (max: 500 in geo.service)
CacheTtl == 1       \* clock ticks an entry stays fresh (ttl: one hour)
MaxUsers == 3       \* number of User rows ever created
MaxTokens == 2      \* number of reset tokens ever generated
MaxResets == 2      \* number of resetPassword calls in progress at a time
ResetTtl == 1       \* clock ticks a reset token stays valid (one hour)
MaxCreates == 2     \* number of createSubscription calls in progress at a time
MaxStripeSubs == 2  \* number of subscriptions ever created at the provider
MaxDels == 2        \* number of deleteAdminUser calls in progress at a time
MaxSchedules == 2   \* schedule ids scheduleReport hands out
MaxJobs == 3        \* cron jobs created by scheduleReport and updateScheduledReport
MaxRuns == 2        \* executions of executeScheduledReport in flight at a time

\* ------------------------------------------------------------------------
\* Values
\* ------------------------------------------------------------------------
\* A string value is a record, so that a plaintext and a bcrypt hash string
\* are comparable with = and /= as JavaScript compares strings. An absent
\* expiresAt is the empty set, a set one the singleton of its instant.
Plain(t) == [kind |-> "plain", text |-> t, salt |-> 0]
NullStr == [kind |-> "null", text |-> "", salt |-> 0]

Passwords == {"hunter2"}
Salts == {1}
Slugs == {"3f2a9c1e", "swagger.json"}
GenSlugs == {"3f2a9c1e"}
Dests == {"https://example.com/landing", "https://example.com/other"}
HookUrls == {"http://hook.invalid/cb"}
ExpiryTimes == {1}
ApiKeyIds == {1}
Requests == 1..MaxReq
Lookups == 1..MaxLookups
Deletes == 1..MaxDels
Resets == 1..MaxResets
Creates == 1..MaxCreates
UserIds == 1..MaxUsers
Emails == {"ada@example.com", "bob@example.com", "cy@example.com"}

\* now: the clock; links, clicks: the Link and Click tables with their
\* AUTOINCREMENT counters; reqs: the GET requests and the position of each
\* in redirectHandler.
VARIABLES now, links, nextLinkId, clicks, nextClickId, reqs

\* api: the response to the latest call of an API-key route; cache, lastSet,
\* lookups: the LRU cache of geo.service, the instant of the latest
\* cache.set of each ip, and the calls of lookup made by requestLogger.
VARIABLES api, cache, lastSet, lookups

geoVars == <<cache, lastSet, lookups>>

\* page: the latest GET /api/links request on its way through
\* paginationMiddleware and listLinks.
VARIABLES page

\* users: the User table with its AUTOINCREMENT counter; dels: the calls of
\* deleteAdminUser and the position of each between its two store calls.
VARIABLES users, nextUserId, dels

\* issued: the reset tokens generated so far, in order, each with its user,
\* its instant and the number of times resetPassword has accepted it;
\* resets: the calls of resetPassword and the position of each between its
\* two store calls; answers: what requestPasswordReset has answered so far,
\* each with whether the e-mail was that of a user.
VARIABLES issued, resets, answers

\* subs: the Subscription table; stripeSubs: the subscriptions held by the
\* payment provider, in order of creation (the position is the id);
\* customers: the number of customers created at the provider; creates: the
\* calls of createSubscription and the position of each; reactLog: status
\* and cancelAtPeriodEnd, as stored, of each row at the moment
\* reactivateSubscription set it to active.
VARIABLES subs, stripeSubs, customers, creates, reactLog

\* scheduledJobs: the scheduledJobs map of ScheduledReportsService, one entry
\* per key; nextScheduleId: the next fresh schedule id; cronJobs: the tasks
\* cron.schedule has created, in order of creation; runs: the executions of
\* executeScheduledReport in flight; mail: the last e-mail handed to
\* emailService; ret: the last call of the service and what it returned.
VARIABLES scheduledJobs, nextScheduleId, cronJobs, runs, mail, ret

\* The variables by subsystem: link resolution and management with the geo
\* cache, pagination, the User table, subscriptions, scheduled reports.
storeVars == <<now, links, nextLinkId, clicks, nextClickId, reqs, geoVars>>
coreVars == <<storeVars, api>>
pageVars == <<page>>
userVars == <<users, nextUserId, dels, issued, resets, answers>>
subVars == <<subs, stripeSubs, customers, creates, reactLog>>
schedVars == <<scheduledJobs, nextScheduleId, cronJobs, runs, mail, ret>>

svcVars == <<pageVars, userVars, subVars, schedVars>>

vars ==
  <<now, links, nextLinkId, clicks, nextClickId, reqs, api, cache, lastSet,
    lookups, svcVars>>

\* bcrypt.hash(password, 10): a salted one-way hash; the result is a string
\* that differs from every plaintext handled here.
bcryptHash(p, s) == [kind |-> "hash", text |-> p, salt |-> s]

\* JavaScript truthiness of an optional string (undefined, null and "" are
\* falsy).
Truthy(v) == v.kind # "null" /\ ~(v.kind = "plain" /\ v.text = "")

NoLink ==
  [id |-> 0, slug |-> "", destination |-> "", password |-> NullStr,
   expiresAt |-> {}, webhookUrl |-> "", apiKeyId |-> 0]

\* prisma.link.findUnique({ where: { slug } })
findUnique(slug) ==
  IF \E l \in links : l.slug = slug
    THEN CHOOSE l \in links : l.slug = slug
    ELSE NoLink

\* The expiry check with >= in place of >.
expiredAtEquality(link, t) ==
  link.expiresAt # {} /\ \E e \in link.expiresAt : t >= e

\* link.expiresAt && new Date() > new Date(link.expiresAt)
expired(link, t) == link.expiresAt # {} /\ \E e \in link.expiresAt : t > e

\* new Date() of the expiry check, evaluated only when link.expiresAt is set.
expiryCheckedAt(link, t) == IF link.expiresAt # {} THEN {t} ELSE {}

\* const providedPassword = req.query.password || req.body.password
providedPassword(q, b) == IF Truthy(q) THEN q ELSE b

\* link.password && (!providedPassword || providedPassword !== link.password)
challenged(link, provided) ==
  /\ link.password # NullStr
  /\ (~Truthy(provided) \/ provided # link.password)

\* The gate of redirectHandler: the status of the early return, 0 to proceed.
resolve(link, provided, t) ==
  IF link = NoLink THEN 404
  ELSE IF expired(link, t) THEN 410
  ELSE IF challenged(link, provided) THEN 401
  ELSE 0

\* The gate with the return of the password challenge missing.
proceedsAfterChallenge(st) == st \in {0, 401}

\* The early returns of redirectHandler: the handler goes on to record the
\* click only when the gate let the request through.
proceeds(st) == st = 0

\* The route table of app.js for GET /<one segment>, in registration order:
\* /swagger.json is registered before /:slug, /health after it.  A route
\* with a parameter matches every one-segment path.
getRoutes ==
  << [segment |-> "swagger.json", param |-> FALSE, handler |-> "swaggerJson"],
     [segment |-> "slug", param |-> TRUE, handler |-> "redirectHandler"],
     [segment |-> "health", param |-> FALSE, handler |-> "health"] >>

matchesRoute(route, path) == route.param \/ route.segment = path

\* The router runs the handler of the first registered route that matches;
\* none of these handlers calls next().
routeGet(path) ==
  LET i == CHOOSE i \in 1..Len(getRoutes) :
             /\ matchesRoute(getRoutes[i], path)
             /\ \A j \in 1..(i - 1) : ~matchesRoute(getRoutes[j], path)
  IN getRoutes[i].handler

\* An async handler whose promise rejects without having written a response:
\* the router either forwards the rejection to the default error handler
\* (500) or ignores the returned promise (no response), depending on the
\* framework release; app.js registers no error middleware of its own.
RejectedHandlerStatus == {500, 0}

\* res.status(..).send / res.json / res.redirect: the first response written
\* is the one the client gets.
send(q, status, body, location) ==
  IF q.status # 0 THEN q
  ELSE [q EXCEPT !.status = status, !.body = body, !.location = location]

bodyOf(st) ==
  IF st = 404 THEN "Not found"
  ELSE IF st = 410 THEN "Gone"
  ELSE IF st = 401 THEN "{error:Password required,challenge:true}"
  ELSE ""

InitReq ==
  [pc |-> "new", slug |-> "", provided |-> NullStr, link |-> NoLink,
   checkedAt |-> {}, lookup |-> "none", status |-> 0, body |-> "",
   location |-> "", insert |-> "none", hook |-> "none", posts |-> 0]

\* No API-key route has answered yet.
NoResponse == [status |-> 0, body |-> "", linkId |-> 0]

\* The ip addresses of the clients.
Ips == {"203.0.113.7", "198.51.100.9", "192.0.2.33"}

NoGeo == [ip |-> "", country |-> ""]

InitLookup ==
  [pc |-> "new", ip |-> "", at |-> 0, held |-> {}, lastSetSeen |-> {},
   called |-> FALSE, outcome |-> "none", result |-> NoGeo, evicted |-> {}]

\* A value of req.query: absent, the string of the query string, or the
\* number a middleware has written in its place.
QUndefined == [type |-> "undefined", chars |-> <<>>, n |-> 0]
QString(cs) == [type |-> "string", chars |-> cs, n |-> 0]
QNumber(n) == [type |-> "number", chars |-> <<>>, n |-> n]

InitDel == [pc |-> "new", id |-> 0, adminCount |-> 0, status |-> 0]

InitCreate ==
  [pc |-> "new", userId |-> 0, planId |-> "", customer |-> 0, error |-> ""]

InitReset ==
  [pc |-> "new", token |-> {}, newPassword |-> "", userId |-> 0,
   foundAt |-> 0, latest |-> FALSE, status |-> 0]

InitPage ==
  [pc |-> "idle", limit |-> QUndefined, offset |-> QUndefined, owned |-> 0,
   writable |-> TRUE, seenLimit |-> QUndefined, seenOffset |-> QUndefined,
   status |-> 0, returned |-> 0]

\* The options of a schedule, as far as the service reads them.
NoOptions == [email |-> "", frequency |-> ""]

\* No execution of executeScheduledReport in this slot.
InitRun == [pc |-> "idle", job |-> 0, scheduleId |-> 0, options |-> NoOptions]

NoMail ==
  [kind |-> "none", to |-> "", scheduleId |-> 0, jobDestroyed |-> FALSE,
   listed |-> FALSE]

NoCall == [call |-> "none", scheduleId |-> 0, present |-> FALSE, result |-> ""]

Init ==
  /\ now = 0
  /\ links = {}
  /\ nextLinkId = 1
  /\ clicks = {}
  /\ nextClickId = 1
  /\ reqs = [r \in Requests |-> InitReq]
  /\ api = NoResponse
  /\ cache = <<>>
  /\ lastSet = [i \in Ips |-> {}]
  /\ lookups = [k \in Lookups |-> InitLookup]
  /\ page = InitPage
  /\ users = {}
  /\ nextUserId = 1
  /\ dels = [d \in Deletes |-> InitDel]
  /\ issued = <<>>
  /\ resets = [k \in Resets |-> InitReset]
  /\ answers = {}
  /\ subs = {}
  /\ stripeSubs = <<>>
  /\ customers = 0
  /\ creates = [c \in Creates |-> InitCreate]
  /\ reactLog = {}
  /\ scheduledJobs = {}
  /\ nextScheduleId = 1
  /\ cronJobs = <<>>
  /\ runs = [k \in 1..MaxRuns |-> InitRun]
  /\ mail = NoMail
  /\ ret = NoCall

\* Time passes.
Tick ==
  /\ now < MaxTime
  /\ now' = now + 1
  /\ UNCHANGED <<links, nextLinkId, clicks, nextClickId, reqs>>
  /\ UNCHANGED <<api, geoVars, svcVars>>

\* An insert that is issued without await: the redirect is written while
\* the insert is still in flight.
issueInsertDetached(q) ==
  [send(q, 302, "", q.link.destination) EXCEPT !.pc = "insert"]

\* await prisma.click.create(...): the handler is suspended, with no
\* response written, until the insert has settled.
issueInsert(q) == [q EXCEPT !.pc = "insert"]

ProvidedValues ==
  {NullStr, Plain("wrong")}
    \cup {Plain(p) : p \in Passwords}
    \cup {bcryptHash(p, s) : p \in Passwords, s \in Salts}

\* GET /<slug>: routing, then redirectHandler up to its first response or to
\* the point where prisma.click.create has been issued. q and b are the
\* password of the query string and of the parsed body; dbOk tells whether
\* prisma.link.findUnique succeeds. Requests are numbered in the order they
\* arrive.
RedirectLookup(r, slug, q, b, dbOk) ==
  /\ reqs[r].pc = "new"
  /\ r > 1 => reqs[r - 1].pc # "new"
  /\ LET provided == providedPassword(q, b)
         q0 == [reqs[r] EXCEPT !.slug = slug, !.provided = provided]
     IN IF routeGet(slug) = "swaggerJson"
          THEN reqs' = [reqs EXCEPT ![r] =
                 [send(q0, 200, "swaggerSpec", "") EXCEPT !.pc = "done"]]
        ELSE IF routeGet(slug) = "health"
          THEN reqs' = [reqs EXCEPT ![r] =
                 [send(q0, 200, "{ok:true}", "") EXCEPT !.pc = "done"]]
        ELSE IF ~dbOk
          THEN \E st \in RejectedHandlerStatus :
                 reqs' = [reqs EXCEPT ![r] =
                   [send(q0, st, "", "") EXCEPT !.pc = "done",
                                                !.lookup = "error"]]
        ELSE LET link == findUnique(slug)
                 st == resolve(link, provided, now)
                 q1 == [q0 EXCEPT !.link = link, !.lookup = "ok",
                                  !.checkedAt = expiryCheckedAt(link, now)]
             IN reqs' = [reqs EXCEPT ![r] =
                  IF proceeds(st)
                    THEN issueInsert(send(q1, st, bodyOf(st), ""))
                    ELSE [send(q1, st, bodyOf(st), "") EXCEPT !.pc = "done"]]
  /\ UNCHANGED <<now, links, nextLinkId, clicks, nextClickId>>
  /\ UNCHANGED <<api, geoVars, svcVars>>

\* An insert that stores the click twice.
createClickTwice(id, linkId) ==
  {[id |-> id, linkId |-> linkId], [id |-> id + 1, linkId |-> linkId]}

\* prisma.click.create({ data: { linkId: link.id, ...clickData } }): the row
\* is modelled by its id and the link it references.
createClick(id, linkId) == {[id |-> id, linkId |-> linkId]}

\* A Click table without the foreign key on linkId.
linkRowUnchecked(id) == TRUE

\* Click_linkId_fkey: a Click row can be inserted only while the Link row it
\* references is stored.
linkRowExists(id) == \E x \in links : x.id = id

\* The awaited insert of redirectHandler completes: the row is stored, or
\* the insert throws (store error, or the Click_linkId_fkey foreign key when
\* the link row is gone) and the catch block logs it.
InsertClick(r, dbOk) ==
  /\ reqs[r].pc = "insert"
  /\ LET l == reqs[r].link
     IN IF ~dbOk
          THEN /\ reqs' = [reqs EXCEPT ![r].pc = "respond",
                                       ![r].insert = "store"]
               /\ UNCHANGED <<clicks, nextClickId>>
        ELSE IF ~linkRowExists(l.id)
          THEN /\ reqs' = [reqs EXCEPT ![r].pc = "respond",
                                       ![r].insert = "fk"]
               /\ UNCHANGED <<clicks, nextClickId>>
        ELSE /\ clicks' = clicks \cup createClick(nextClickId, l.id)
             /\ nextClickId' = nextClickId + Cardinality(clicks' \ clicks)
             /\ reqs' = [reqs EXCEPT ![r].pc = "respond", ![r].insert = "ok"]
  /\ UNCHANGED <<now, links, nextLinkId>>
  /\ UNCHANGED <<api, geoVars, svcVars>>

\* A catch block that answers 500 when the insert failed.
onInsertErrorFail(q) == IF q.insert = "ok" THEN q ELSE send(q, 500, "", "")

\* catch (e) { console.error("Failed to record click", ...) }: the request
\* goes on unchanged.
onInsertError(q) == q

\* The handler awaiting sendWebhook before it redirects.
webhookAwaitedYes == TRUE

\* sendWebhook(...) is called without await: the handler does not wait for
\* the POST.
webhookAwaited == FALSE

\* if (link.webhookUrl) sendWebhook(...).catch(...)
dispatches(q) == q.link.webhookUrl # ""

redirect(q) ==
  [send(q, 302, "", q.link.destination) EXCEPT !.pc = "done"]

\* axios.post(webhookUrl, payload, { timeout: 5000, ... }) is issued: one
\* more POST of this request is in flight.
post(q) == [q EXCEPT !.hook = "pending", !.posts = @ + 1]

\* The tail of redirectHandler after the insert attempt: webhook dispatch and
\* res.redirect(link.destination).
Respond(r) ==
  /\ reqs[r].pc = "respond"
  /\ LET q0 == onInsertError(reqs[r])
         q1 == IF dispatches(q0) THEN post(q0) ELSE q0
     IN reqs' = [reqs EXCEPT ![r] =
          IF dispatches(q0) /\ webhookAwaited
            THEN [q1 EXCEPT !.pc = "hookwait"]
            ELSE redirect(q1)]
  /\ UNCHANGED <<now, links, nextLinkId, clicks, nextClickId>>
  /\ UNCHANGED <<api, geoVars, svcVars>>

\* A catch block that posts once more after a failed POST.
onPostFailureRetry(q) ==
  IF q.posts < 2 THEN post(q) ELSE [q EXCEPT !.hook = "failed"]

\* catch (error) { console.error('Webhook delivery failed:', ...) } of
\* sendWebhook: the failure is logged, nothing is posted again and nothing is
\* thrown, so the promise of sendWebhook resolves.
onPostFailure(q) == [q EXCEPT !.hook = "failed"]

\* sendWebhook: axios.post resolves, or fails (timeout after 5 s, connection
\* error, non-2xx status) and the catch block logs the failure.
WebhookSettle(r, result) ==
  /\ reqs[r].hook = "pending"
  /\ LET q1 == IF result = "failed" THEN onPostFailure(reqs[r])
                ELSE [reqs[r] EXCEPT !.hook = "ok"]
     IN reqs' = [reqs EXCEPT ![r] =
          IF q1.pc = "hookwait" /\ q1.hook # "pending"
            THEN redirect(q1) ELSE q1]
  /\ UNCHANGED <<now, links, nextLinkId, clicks, nextClickId>>
  /\ UNCHANGED <<api, geoVars, svcVars>>

\* ------------------------------------------------------------------------
\* Link management
\* ------------------------------------------------------------------------
PasswordInputs == {NullStr} \cup {Plain(p) : p \in Passwords}
ExpiryInputs == {{}} \cup {{t} : t \in ExpiryTimes}

\* A handler that writes the password of the body to the store as it is.
passwordAsGiven(password, s) == password

\* let hashedPassword = null; if (password) hashedPassword = await bcrypt.hash
hashedPassword(password, s) ==
  IF Truthy(password) THEN bcryptHash(password.text, s) ELSE NullStr

\* A store without the unique index on Link.slug.
slugNeverTaken(slug, exceptId) == FALSE

\* The Link_slug_key unique index.
slugTaken(slug, exceptId) ==
  \E l \in links : l.slug = slug /\ l.id # exceptId

\* createLink of links.controller, called with req.apiKey = key. A missing
\* destination is "", an omitted slug is "" and gen is what uuidv4().slice(0, 8)
\* returns. A failed create (400) stores nothing. The response is written
\* to api by the route that calls the handler.
createLink(key, destination, slug, password, expiresAt, webhookUrl, gen, s, dbOk) ==
  /\ LET finalSlug == IF slug # "" THEN slug ELSE gen
     IN /\ destination # ""
        /\ dbOk
        /\ ~slugTaken(finalSlug, 0)
        /\ links' = links \cup
             {[id |-> nextLinkId, slug |-> finalSlug,
               destination |-> destination,
               password |-> hashedPassword(password, s),
               expiresAt |-> expiresAt, webhookUrl |-> webhookUrl,
               apiKeyId |-> key]}
        /\ nextLinkId' = nextLinkId + 1
  /\ UNCHANGED <<now, clicks, nextClickId, reqs, geoVars, svcVars>>

\* A condition that selects the row by its id alone.
whereId(key, id) == {l \in links : l.id = id}

\* where: { id: parseInt(id), apiKeyId: req.apiKey.id }
whereIdAndKey(key, id) == {l \in links : l.id = id /\ l.apiKeyId = key}

\* deleteLink of links.controller: prisma.link.delete where { id, apiKeyId };
\* Click_linkId_fkey is ON DELETE RESTRICT. A failed delete (404, 400) removes
\* nothing.
deleteLink(key, id, dbOk) ==
  /\ dbOk
  /\ whereIdAndKey(key, id) # {}
  /\ ~(\E c \in clicks : c.linkId = id)
  /\ links' = {l \in links : l.id # id}
  /\ UNCHANGED <<now, nextLinkId, clicks, nextClickId, reqs>>
  /\ UNCHANGED <<geoVars, svcVars>>

LinkIds == 1..MaxLinks

Next ==
  \/ Tick
  \/ \E r \in Requests, slug \in Slugs, q \in ProvidedValues,
        b \in PasswordInputs, dbOk \in BOOLEAN :
       RedirectLookup(r, slug, q, b, dbOk)
  \/ \E r \in Requests, dbOk \in BOOLEAN : InsertClick(r, dbOk)
  \/ \E r \in Requests : Respond(r)
  \/ \E r \in Requests, result \in {"ok", "failed"} : WebhookSettle(r, result)
  \/ \E key \in ApiKeyIds, destination \in Dests \cup {""},
        slug \in Slugs \cup {""}, password \in PasswordInputs,
        expiresAt \in ExpiryInputs, webhookUrl \in HookUrls \cup {""},
        gen \in GenSlugs, s \in Salts, dbOk \in BOOLEAN :
       /\ nextLinkId <= MaxLinks
       /\ createLink(key, destination, slug, password, expiresAt, webhookUrl,
                     gen, s, dbOk)
       /\ UNCHANGED api
  \/ \E key \in ApiKeyIds, id \in LinkIds, dbOk \in BOOLEAN :
       /\ deleteLink(key, id, dbOk)
       /\ UNCHANGED api

Spec == Init /\ [][Next]_vars

\* The same application, driven by GET /health and by links whose slug is
\* the word health (createLink accepts any custom slug).
HealthPaths == {"health"}

RouteNext ==
  \/ Tick
  \/ \E r \in Requests, path \in HealthPaths, dbOk \in BOOLEAN :
       RedirectLookup(r, path, NullStr, NullStr, dbOk)
  \/ \E r \in Requests, dbOk \in BOOLEAN : InsertClick(r, dbOk)
  \/ \E r \in Requests : Respond(r)
  \/ \E r \in Requests, result \in {"ok", "failed"} : WebhookSettle(r, result)
  \/ \E key \in ApiKeyIds, destination \in Dests,
        slug \in HealthPaths \cup {""},
        webhookUrl \in HookUrls \cup {""}, gen \in GenSlugs, s \in Salts,
        dbOk \in BOOLEAN :
       /\ nextLinkId <= MaxLinks
       /\ createLink(key, destination, slug, NullStr, {}, webhookUrl, gen, s,
                     dbOk)
       /\ UNCHANGED api
  \/ \E key \in ApiKeyIds, id \in LinkIds, dbOk \in BOOLEAN :
       /\ deleteLink(key, id, dbOk)
       /\ UNCHANGED api

RouteSpec == Init /\ [][RouteNext]_vars

\* ------------------------------------------------------------------------
\* Link management on its own: the create, update and delete handlers of
\* links.controller and admin.controller, for two API keys
\* ------------------------------------------------------------------------
\* A field the request body does not carry is undefined: prisma leaves the
\* column as it is.
Undefined == "<undefined>"

OwnerKeys == {1, 2}
DestInputs == {"https://example.com/landing", "not a url"}
RowIds == 1..MaxRows

\* An update that merges: a password or an expiry the body omits keeps the
\* stored one.
updateDataMerging(l, destination, slug, password, expiresAt, webhookUrl, s) ==
  [l EXCEPT
     !.destination = IF destination = Undefined THEN @ ELSE destination,
     !.slug = IF slug = Undefined THEN @ ELSE slug,
     !.password = IF Truthy(password) THEN hashedPassword(password, s) ELSE @,
     !.expiresAt = IF expiresAt = {} THEN @ ELSE expiresAt,
     !.webhookUrl = IF webhookUrl = Undefined THEN @ ELSE webhookUrl]

\* The data of prisma.link.update as updateLink and updateAdminLink build it:
\* destination, slug and webhookUrl are written when the body carries them,
\* password and expiresAt are always written (the hash or null, the date or
\* null).
updateData(l, destination, slug, password, expiresAt, webhookUrl, s) ==
  [l EXCEPT
     !.destination = IF destination = Undefined THEN @ ELSE destination,
     !.slug = IF slug = Undefined THEN @ ELSE slug,
     !.password = hashedPassword(password, s),
     !.expiresAt = expiresAt,
     !.webhookUrl = IF webhookUrl = Undefined THEN @ ELSE webhookUrl]

\* prisma.link.update({ where, data }) on the row l: refused by the
\* Link_slug_key unique index when another row has the new slug.
updateRow(l, row) ==
  /\ ~slugTaken(row.slug, l.id)
  /\ links' = (links \ {l}) \cup {row}
  /\ UNCHANGED <<now, nextLinkId, clicks, nextClickId, reqs>>
  /\ UNCHANGED <<geoVars, svcVars>>

\* updateLink of links.controller, called with req.apiKey = key: where
\* { id, apiKeyId }. A failed update (404, 400) changes nothing.
updateLink(key, id, destination, slug, password, expiresAt, webhookUrl, s, dbOk) ==
  /\ dbOk
  /\ \E l \in whereIdAndKey(key, id) :
       updateRow(l, updateData(l, destination, slug, password, expiresAt,
                               webhookUrl, s))

\* createAdminLink of admin.controller: apiKeyId || 1, no webhookUrl. A
\* failed create (400, 500) stores nothing.
createAdminLink(destination, slug, password, expiresAt, apiKeyId, gen, s, dbOk) ==
  /\ createLink(IF apiKeyId = 0 THEN 1 ELSE apiKeyId, destination, slug,
                password, expiresAt, "", gen, s, dbOk)
  /\ UNCHANGED api

\* updateAdminLink of admin.controller: where { id }, webhookUrl not written.
updateAdminLink(id, destination, slug, password, expiresAt, s, dbOk) ==
  /\ dbOk
  /\ \E l \in links :
       /\ l.id = id
       /\ updateRow(l, updateData(l, destination, slug, password, expiresAt,
                                  Undefined, s))
  /\ UNCHANGED api

\* The ApiKey table: two active keys and a deactivated one.
apiKeys ==
  {[id |-> 1, key |-> "key-1", isActive |-> TRUE],
   [id |-> 2, key |-> "key-2", isActive |-> TRUE],
   [id |-> 3, key |-> "key-revoked", isActive |-> FALSE]}

\* The x-api-key header of a call; "" when the header is absent.
KeyHeaders == {"", "key-1", "key-2", "key-revoked", "key-unknown"}

NoKey == [id |-> 0, key |-> "", isActive |-> FALSE]
NoUser == [id |-> 0]

\* prisma.apiKey.findUnique({ where: { key } })
findApiKey(header) ==
  IF \E k \in apiKeys : k.key = header
    THEN CHOOSE k \in apiKeys : k.key = header
    ELSE NoKey

\* apiKeyAuth: the status of its early return, 0 when it sets req.apiKey and
\* calls next().
apiKeyAuth(header) ==
  IF header = "" THEN 401
  ELSE IF findApiKey(header) = NoKey \/ ~findApiKey(header).isActive THEN 401
  ELSE 0

apiKeyAuthBody(header) ==
  IF header = "" THEN "{error:API key required in x-api-key header}"
  ELSE "{error:Invalid API key}"

\* req.user when requireFeatureWithLimit runs on POST /api/links: it is
\* assigned by jwtAuth and by the admin middleware only, neither of which is
\* on this route; apiKeyAuth assigns req.apiKey.
reqUser(header) == NoUser

\* requireFeature and checkUsageLimit: both read req.user?.id and answer 401
\* without it; with it, and billing enabled, the plan decides (403, 429).
requireFeatureWithLimit(user, billingEnabled, allowed) ==
  IF user.id = 0 THEN 401
  ELSE IF ~billingEnabled THEN 0
  ELSE IF allowed THEN 0
  ELSE 403

\* POST /api/links: apiKeyAuth, requireFeatureWithLimit("links"), createLink.
\* The response is kept in api; linkId is the id of the row created.
PostApiLinks(header, destination, slug, password, expiresAt, webhookUrl, gen, s, dbOk, billingEnabled, allowed) ==
  LET auth == apiKeyAuth(header)
      gate == requireFeatureWithLimit(reqUser(header), billingEnabled, allowed)
      unchanged == UNCHANGED <<now, links, nextLinkId, clicks, nextClickId,
                               reqs, geoVars, svcVars>>
  IN IF auth # 0
       THEN /\ api' = [status |-> auth, body |-> apiKeyAuthBody(header),
                       linkId |-> 0]
            /\ unchanged
     ELSE IF gate # 0
       THEN /\ api' = [status |-> gate,
                       body |-> IF gate = 401
                                  THEN "{success:false,message:Authentication required}"
                                  ELSE "{success:false}",
                       linkId |-> 0]
            /\ unchanged
     ELSE IF destination = ""
       THEN /\ api' = [status |-> 400, body |-> "{error:destination is required}",
                       linkId |-> 0]
            /\ unchanged
     ELSE \/ /\ createLink(findApiKey(header).id, destination, slug, password,
                            expiresAt, webhookUrl, gen, s, dbOk)
             /\ api' = [status |-> 200, body |-> "{slug,shortUrl,id}",
                        linkId |-> nextLinkId]
          \/ /\ ~dbOk \/ slugTaken(IF slug # "" THEN slug ELSE gen, 0)
             /\ api' = [status |-> 400, body |-> "{error:Link creation failed}",
                        linkId |-> 0]
             /\ unchanged

\* The other variables, for a call of an API-key route that changes no row.
linksUnchanged ==
  UNCHANGED <<now, links, nextLinkId, clicks, nextClickId, reqs, geoVars,
              svcVars>>

reply(status, body, id) == [status |-> status, body |-> body, linkId |-> id]

\* PUT /api/links/:id with req.apiKey = key: updateLink and its answers,
\* 200 with the link, 404 on P2025 (no row for where), 400 on any other
\* failure of the update. linkId is the id asked for.
PutApiLinksId(key, id, destination, slug, password, expiresAt, webhookUrl, s, dbOk) ==
  \/ /\ updateLink(key, id, destination, slug, password, expiresAt,
                    webhookUrl, s, dbOk)
     /\ api' = reply(200, "{id,slug,shortUrl}", id)
  \/ /\ dbOk /\ whereIdAndKey(key, id) = {}
     /\ api' = reply(404, "{error:Link not found}", id)
     /\ linksUnchanged
  \/ /\ \/ ~dbOk
        \/ \E l \in whereIdAndKey(key, id) :
             slugTaken(updateData(l, destination, slug, password, expiresAt,
                                  webhookUrl, s).slug, l.id)
     /\ api' = reply(400, "{error:Link update failed}", id)
     /\ linksUnchanged

\* DELETE /api/links/:id with req.apiKey = key: deleteLink and its answers.
DeleteApiLinksId(key, id, dbOk) ==
  \/ /\ deleteLink(key, id, dbOk)
     /\ api' = reply(200, "{message:Link deleted successfully}", id)
  \/ /\ dbOk /\ whereIdAndKey(key, id) = {}
     /\ api' = reply(404, "{error:Link not found}", id)
     /\ linksUnchanged
  \/ /\ ~dbOk \/ (whereIdAndKey(key, id) # {}
                    /\ \E c \in clicks : c.linkId = id)
     /\ api' = reply(400, "{error:Link deletion failed}", id)
     /\ linksUnchanged

\* prisma.link.deleteMany({where: {id: {in: ids}, apiKeyId}}): the rows it
\* selects.
deleteManyWhere(key, ids) == {l \in links : l.id \in ids /\ l.apiKeyId = key}

\* bulkDeleteLinks with req.apiKey = key: 400 for a missing or empty ids
\* array and for a failed deleteMany (a selected row with clicks fails it
\* as a whole), else the selected rows are deleted and counted. The
\* handler is registered for DELETE /api/links/bulk, after
\* DELETE /api/links/:id.
bulkDeleteLinks(key, ids, dbOk) ==
  LET rows == deleteManyWhere(key, ids)
  IN IF ids = {}
       THEN /\ api' = reply(400, "{error:ids array is required}", 0)
            /\ linksUnchanged
     ELSE IF ~dbOk \/ \E l \in rows, c \in clicks : c.linkId = l.id
       THEN /\ api' = reply(400, "{error:Bulk link deletion failed}", 0)
            /\ linksUnchanged
     ELSE /\ links' = links \ rows
          /\ api' = [status |-> 200, body |-> "{deleted}", linkId |-> 0,
                      deleted |-> Cardinality(rows)]
          /\ UNCHANGED <<now, nextLinkId, clicks, nextClickId, reqs, geoVars,
                         svcVars>>

LinkNext ==
  \/ \E header \in KeyHeaders, destination \in DestInputs \cup {""},
        slug \in Slugs \cup {""}, gen \in GenSlugs, s \in Salts,
        dbOk \in BOOLEAN, billingEnabled \in BOOLEAN, allowed \in BOOLEAN :
       /\ nextLinkId <= MaxRows
       /\ PostApiLinks(header, destination, slug, NullStr, {}, "", gen, s,
                       dbOk, billingEnabled, allowed)
  \/ \E key \in OwnerKeys, destination \in DestInputs \cup {""},
        slug \in Slugs \cup {""}, password \in PasswordInputs,
        expiresAt \in ExpiryInputs, webhookUrl \in HookUrls \cup {""},
        gen \in GenSlugs, s \in Salts, dbOk \in BOOLEAN :
       /\ nextLinkId <= MaxRows
       /\ createLink(key, destination, slug, password, expiresAt, webhookUrl,
                     gen, s, dbOk)
       /\ UNCHANGED api
  \/ \E key \in OwnerKeys, id \in RowIds,
        destination \in DestInputs \cup {Undefined},
        slug \in Slugs \cup {Undefined}, password \in PasswordInputs,
        expiresAt \in ExpiryInputs, webhookUrl \in HookUrls \cup {Undefined},
        s \in Salts, dbOk \in BOOLEAN :
       /\ updateLink(key, id, destination, slug, password, expiresAt,
                     webhookUrl, s, dbOk)
       /\ UNCHANGED api
  \/ \E key \in OwnerKeys, id \in RowIds, dbOk \in BOOLEAN :
       /\ deleteLink(key, id, dbOk)
       /\ UNCHANGED api
  \/ \E destination \in DestInputs \cup {""}, slug \in Slugs \cup {""},
        password \in PasswordInputs, expiresAt \in ExpiryInputs,
        apiKeyId \in OwnerKeys \cup {0}, gen \in GenSlugs, s \in Salts,
        dbOk \in BOOLEAN :
       /\ nextLinkId <= MaxRows
       /\ createAdminLink(destination, slug, password, expiresAt, apiKeyId,
                          gen, s, dbOk)
  \/ \E id \in RowIds, destination \in DestInputs \cup {Undefined},
        slug \in Slugs \cup {Undefined}, password \in PasswordInputs,
        expiresAt \in ExpiryInputs, s \in Salts, dbOk \in BOOLEAN :
       updateAdminLink(id, destination, slug, password, expiresAt, s, dbOk)

LinkSpec == Init /\ [][LinkNext]_vars

\* The destination of the body of an update: omitted, or a new one.
DestUpdates == {Undefined, "https://example.com/other"}

\* The routes that change or delete a link, each with its answer, called
\* by the owners of two API keys and by an admin.
OwnerNext ==
  \/ \E key \in OwnerKeys, slug \in Slugs \cup {""},
        password \in PasswordInputs, expiresAt \in ExpiryInputs,
        gen \in GenSlugs, s \in Salts :
       /\ nextLinkId <= MaxRows
       /\ createLink(key, "https://example.com/landing", slug, password,
                     expiresAt, "", gen, s, TRUE)
       /\ UNCHANGED api
  \/ \E key \in OwnerKeys, id \in RowIds :
       /\ whereIdAndKey(key, id) # {}
       /\ \E destination \in DestUpdates,
             slug \in Slugs \cup {Undefined}, password \in PasswordInputs,
             expiresAt \in ExpiryInputs, s \in Salts :
            PutApiLinksId(key, id, destination, slug, password, expiresAt,
                          Undefined, s, TRUE)
  \/ \E key \in OwnerKeys, id \in RowIds, dbOk \in BOOLEAN :
       /\ ~dbOk \/ whereIdAndKey(key, id) = {}
       /\ PutApiLinksId(key, id, Undefined, Undefined, NullStr, {},
                        Undefined, 1, dbOk)
  \/ \E key \in OwnerKeys, id \in RowIds, dbOk \in BOOLEAN :
       DeleteApiLinksId(key, id, dbOk)
  \/ \E key \in OwnerKeys, ids \in SUBSET RowIds, dbOk \in BOOLEAN :
       bulkDeleteLinks(key, ids, dbOk)
  \/ \E id \in RowIds, password \in PasswordInputs,
        expiresAt \in ExpiryInputs, s \in Salts :
       updateAdminLink(id, Undefined, Undefined, password, expiresAt, s, TRUE)

OwnerSpec == Init /\ [][OwnerNext]_vars

\* ------------------------------------------------------------------------
\* Vocabulary of the claims
\* ------------------------------------------------------------------------
\* The request ran redirectHandler and its lookup returned a link.
Found(r) == reqs[r].lookup = "ok" /\ reqs[r].link # NoLink
Answered(r) == reqs[r].pc = "done"
Redirected(r) ==
  reqs[r].status = 302 /\ reqs[r].location = reqs[r].link.destination
ClicksOf(id) == {c \in clicks : c.linkId = id}
RedirectsOf(id) ==
  {r \in Requests : reqs[r].status = 302 /\ reqs[r].link.id = id}

\* C1: a GET that supplies the password p a link was created with, while the
\* link is not expired, is answered with a 302 to the link's destination.
C1_CorrectPasswordRedirects ==
  \A r \in Requests :
    (/\ Answered(r) /\ Found(r)
     /\ reqs[r].link.password.kind = "hash"
     /\ reqs[r].provided = Plain(reqs[r].link.password.text)
     /\ reqs[r].status # 410)
      => Redirected(r)

\* C2: a GET on an unexpired password-protected link that supplies no
\* password, or any value other than the link's password, is answered with
\* the 401 challenge and never redirected.
C2_WrongPasswordChallenged ==
  \A r \in Requests :
    (/\ Found(r)
     /\ reqs[r].link.password # NullStr
     /\ reqs[r].provided # Plain(reqs[r].link.password.text)
     /\ reqs[r].status # 410)
      => /\ reqs[r].status = 401
         /\ reqs[r].body = "{error:Password required,challenge:true}"

\* C3: a GET on a link whose expiresAt is set is answered 410 exactly when
\* the time of the call is strictly later than expiresAt, whatever the
\* link's password and the password supplied.
C3_ExpiredIffStrictlyLater ==
  \A r \in Requests :
    Found(r) /\ reqs[r].link.expiresAt # {}
      => (reqs[r].status = 410
            <=> \E t \in reqs[r].checkedAt :
                  \A e \in reqs[r].link.expiresAt : t > e)

\* A link was served at the very instant of its expiresAt, and a protected
\* link past its expiry was refused with 410 although the stored password
\* value was supplied.
C3_Witness ==
  /\ \E r \in Requests :
       /\ reqs[r].link.expiresAt # {}
       /\ reqs[r].checkedAt = reqs[r].link.expiresAt
       /\ reqs[r].status = 302
  /\ \E r \in Requests :
       /\ reqs[r].status = 410
       /\ reqs[r].link.password # NullStr
       /\ reqs[r].provided = reqs[r].link.password

\* C4: a request answered 404, 410 or 401 has inserted no Click row and
\* dispatched no webhook, and every Click row comes from a request that got
\* through the gate.
C4_OnlyResolvedRecords ==
  /\ \A r \in Requests :
       reqs[r].status \in {404, 410, 401}
         => reqs[r].insert = "none" /\ reqs[r].hook = "none"
  /\ Cardinality(clicks)
       = Cardinality({r \in Requests : reqs[r].insert = "ok"})

\* Requests to a link with a webhook URL were refused with 401 and with 410,
\* another got 404, and the Click table is still empty.
C4_Witness ==
  /\ clicks = {}
  /\ \E r \in Requests :
       /\ Answered(r)
       /\ reqs[r].status \in {401, 410}
       /\ reqs[r].link.webhookUrl # ""
  /\ \E r \in Requests : Answered(r) /\ reqs[r].status = 404

\* C5: a GET on the exact slug of a stored link that has no password and no
\* expiry is resolved to that link, whatever the slug (the lookup itself not
\* failing).
C5_AnySlugResolves ==
  [][\A r \in Requests : \A l \in links :
       (/\ reqs[r].pc = "new"
        /\ reqs'[r].pc # "new"
        /\ reqs'[r].slug = l.slug
        /\ l.password = NullStr
        /\ l.expiresAt = {}
        /\ reqs'[r].lookup # "error")
         => /\ reqs'[r].link = l
            /\ reqs'[r].pc = "insert"]_vars

\* C6 as stated: with the click store healthy, every 302 has inserted one
\* Click row, and once the requests have completed the Click rows of each
\* link are as many as the 302 responses it produced.
C6_ClickPerRedirect ==
  /\ \A r \in Requests :
       reqs[r].status = 302 /\ reqs[r].insert # "store"
         => reqs[r].insert = "ok"
  /\ (\A r \in Requests :
        reqs[r].pc \in {"new", "done"} /\ reqs[r].insert # "store")
       => \A id \in 1..MaxLinks :
            Cardinality(ClicksOf(id)) = Cardinality(RedirectsOf(id))

\* C6 amended: with the click store healthy, a 302 has inserted one Click
\* row unless the link was deleted between the lookup and the insert (the
\* insert then fails on the foreign key); for every link still stored, once
\* the requests have completed, its Click rows are as many as its 302s.
C6_ClickPerRedirectOfStoredLink ==
  /\ \A r \in Requests :
       reqs[r].status = 302 /\ reqs[r].insert # "store"
         => \/ reqs[r].insert = "ok"
            \/ /\ reqs[r].insert = "fk"
               /\ ~\E l \in links : l.id = reqs[r].link.id
  /\ (\A r \in Requests :
        reqs[r].pc \in {"new", "done"} /\ reqs[r].insert # "store")
       => \A l \in links :
            Cardinality(ClicksOf(l.id)) = Cardinality(RedirectsOf(l.id))
  /\ \A c, d \in clicks : c.id = d.id => c = d

\* Two completed requests were redirected by the same stored link, which now
\* has two Click rows.
C6_Witness ==
  \E l \in links :
    /\ Cardinality(ClicksOf(l.id)) = 2
    /\ \A r \in Requests : Answered(r) /\ Redirected(r) /\ reqs[r].link.id = l.id

\* C7: a resolved request whose Click insert failed is still answered with
\* the 302 to the link's destination.
C7_InsertFailureSwallowed ==
  \A r \in Requests :
    Answered(r) /\ reqs[r].insert \in {"store", "fk"} => Redirected(r)

C7_Witness ==
  \E r \in Requests :
    Answered(r) /\ reqs[r].insert = "store" /\ Redirected(r)

C9_WebhookOnlyAfterInsert ==
  \A r \in Requests : reqs[r].hook # "none" => reqs[r].insert = "ok"

\* C10: whenever a webhook call exists for a request, pending, failed or
\* delivered, the 302 to the link's destination has already been sent.
C10_RedirectNotBehindWebhook ==
  \A r \in Requests :
    reqs[r].hook # "none" => Answered(r) /\ Redirected(r)

\* One redirect was sent while its webhook call has not returned, another
\* while its webhook call had failed.
C10_Witness ==
  /\ \E r \in Requests : reqs[r].hook = "pending" /\ Redirected(r)
  /\ \E r \in Requests : reqs[r].hook = "failed" /\ Redirected(r)

\* ------------------------------------------------------------------------
\* Geo lookup: lookup of geo.service over its LRU cache, called by
\* requestLogger for every request
\* ------------------------------------------------------------------------
\* The ip requestLogger passes: "" stands for null, undefined and "".
IpInputs == Ips \cup {""}

Countries == {"NG"}

\* What the call of the provider comes to: a payload with status "success";
\* fetch rejecting (network error, timeout); a response that is not ok; a
\* body that is not JSON or not an object; a payload with another status.
ProviderOutcomes ==
  {"success", "networkError", "httpError", "malformed", "providerFail"}

\* cache is the list of the entries from the least to the most recently
\* used, as LRUCache keeps it. start is the instant of the set; used is a
\* stamp of the latest get or set of the entry, larger for a later use.
cacheIps(c) == {c[i].ip : i \in DOMAIN c}
entryOf(c, ip) == c[CHOOSE i \in DOMAIN c : c[i].ip = ip]
without(c, ip) == SelectSeq(c, LAMBDA e : e.ip # ip)
nextUse(c) == Len(c) + 1
restamp(c) ==
  [i \in DOMAIN c |->
     [c[i] EXCEPT !.used =
        Cardinality({j \in DOMAIN c : c[j].used <= c[i].used})]]

\* An entry that is stale as soon as its age reaches the ttl.
isStaleAtTtl(e, t) == t - e.start >= CacheTtl

\* LRUCache with ttl: an entry is stale once its age exceeds the ttl.
isStale(e, t) == t - e.start > CacheTtl

\* A get that uses the entry but leaves it where it is in the list.
touchInPlace(c, e) ==
  restamp([i \in DOMAIN c |->
             IF c[i].ip = e.ip THEN [c[i] EXCEPT !.used = nextUse(c)]
             ELSE c[i]])

\* A get that hits moves the entry to the most recently used end.
touch(c, e) ==
  restamp(Append(without(c, e.ip), [e EXCEPT !.used = nextUse(c)]))

\* cache.get(ip) at instant t: the value (NoGeo for undefined) and the cache
\* afterwards; a stale entry is deleted and not returned.
cacheGet(c, ip, t) ==
  IF ip \notin cacheIps(c) THEN [value |-> NoGeo, cache |-> c]
  ELSE IF isStale(entryOf(c, ip), t)
    THEN [value |-> NoGeo, cache |-> restamp(without(c, ip))]
  ELSE [value |-> entryOf(c, ip).value, cache |-> touch(c, entryOf(c, ip))]

\* The eviction of a full LRUCache: the least recently used entry goes.
evict(c) == Tail(c)

\* cache.set(ip, out) at instant t.
cacheSet(c, ip, out, t) ==
  LET e == [ip |-> ip, value |-> out, start |-> t, used |-> nextUse(c)]
  IN restamp(IF ip \in cacheIps(c) THEN Append(without(c, ip), e)
             ELSE IF Len(c) >= CacheMax THEN Append(evict(c), e)
             ELSE Append(c, e))

\* A lookup that caches the failure.
onProviderFailureCached(c, ip, t) == cacheSet(c, ip, NoGeo, t)

\* return null after !res.ok, after data.status !== "success" and in the
\* catch block: the cache is not written.
onProviderFailure(c, ip, t) == c

\* lookup(ip) up to its first await: the guard on ip, cache.get, and on a
\* miss the fetch. at, held and lastSetSeen record the instant of the call,
\* the entry the cache held for ip (its start and value) and the instant of
\* the latest cache.set of ip. A call takes the first slot that is free.
LookupStart(k, ip) ==
  /\ lookups[k].pc = "new"
  /\ \A j \in Lookups : j < k => lookups[j].pc # "new"
  /\ LET g == cacheGet(cache, ip, now)
         q == [lookups[k] EXCEPT
                 !.ip = ip, !.at = now,
                 !.held = IF ip \in cacheIps(cache)
                            THEN {[start |-> entryOf(cache, ip).start,
                                   value |-> entryOf(cache, ip).value]}
                            ELSE {},
                 !.lastSetSeen = IF ip = "" THEN {} ELSE lastSet[ip]]
     IN IF ip = ""
          THEN /\ lookups' = [lookups EXCEPT ![k] =
                     [q EXCEPT !.pc = "done"]]
               /\ UNCHANGED cache
        ELSE IF g.value # NoGeo
          THEN /\ lookups' = [lookups EXCEPT ![k] =
                     [q EXCEPT !.pc = "done", !.result = g.value]]
               /\ cache' = g.cache
        ELSE /\ lookups' = [lookups EXCEPT ![k] =
                   [q EXCEPT !.pc = "fetch", !.called = TRUE]]
             /\ cache' = g.cache
  /\ UNCHANGED <<now, links, nextLinkId, clicks, nextClickId, reqs, api,
                 lastSet, svcVars>>

\* The rest of lookup once the provider call has settled: the normalized
\* result is cached and returned, or null is returned.
LookupFinish(k, outcome, country) ==
  /\ lookups[k].pc = "fetch"
  /\ LET ip == lookups[k].ip
         out == [ip |-> ip, country |-> country]
     IN IF outcome = "success"
          THEN /\ cache' = cacheSet(cache, ip, out, now)
               /\ lastSet' = [lastSet EXCEPT ![ip] = {now}]
               /\ lookups' = [lookups EXCEPT ![k] =
                     [@ EXCEPT !.pc = "done", !.outcome = outcome,
                               !.result = out,
                               !.evicted = cacheIps(cache) \ cacheIps(cache')]]
        ELSE /\ cache' = onProviderFailure(cache, ip, now)
             /\ lookups' = [lookups EXCEPT ![k] =
                   [@ EXCEPT !.pc = "done", !.outcome = outcome]]
             /\ UNCHANGED lastSet
  /\ UNCHANGED <<now, links, nextLinkId, clicks, nextClickId, reqs, api,
                 svcVars>>

\* requestLogger after await geoService.lookup(ip).catch(() => null): the
\* log is written and attached to the request, next() is called, and the
\* next request may come.
LoggerNext(k) ==
  /\ lookups[k].pc = "done"
  /\ lookups' = [lookups EXCEPT ![k] = InitLookup]
  /\ UNCHANGED <<now, links, nextLinkId, clicks, nextClickId, reqs, api,
                 cache, lastSet, svcVars>>

GeoNext ==
  \/ Tick
  \/ \E k \in Lookups : LoggerNext(k)
  \/ \E k \in Lookups, ip \in IpInputs : LookupStart(k, ip)
  \/ \E k \in Lookups, outcome \in ProviderOutcomes, country \in Countries :
       LookupFinish(k, outcome, country)

GeoSpec == Init /\ [][GeoNext]_vars

\* C11: every request has attempted at most one webhook POST, exactly one
\* when a webhook was dispatched and none otherwise; a POST that failed is
\* not posted again, and the call of sendWebhook ends resolved ("ok" or
\* "failed", the failure absorbed), never rejected.
C11_WebhookAtMostOnce ==
  \A r \in Requests :
    /\ reqs[r].posts <= 1
    /\ reqs[r].hook \in {"none", "pending", "ok", "failed"}
    /\ reqs[r].posts = (IF reqs[r].hook = "none" THEN 0 ELSE 1)
    /\ reqs[r].hook # "none" => reqs[r].link.webhookUrl # ""

\* Every request is over, one of them with a webhook POST that failed and
\* was attempted once, another with a POST that was delivered.
C11_Witness ==
  /\ \A r \in Requests : Answered(r) /\ reqs[r].hook # "pending"
  /\ \E r \in Requests : reqs[r].hook = "failed" /\ reqs[r].posts = 1
  /\ \E r \in Requests : reqs[r].hook = "ok" /\ reqs[r].posts = 1

\* C12 as stated: a 302 is sent only after the Click insert attempt of its
\* request has completed, and with the click store healthy the Click rows of
\* a link are at every instant at least as many as the 302s sent for it.
C12_ClickBeforeRedirect ==
  /\ \A r \in Requests : reqs[r].status = 302 => reqs[r].insert # "none"
  /\ \A id \in LinkIds :
       Cardinality(ClicksOf(id)) >=
         Cardinality({r \in RedirectsOf(id) : reqs[r].insert # "store"})

\* C12 amended: a 302 is sent only after the Click insert attempt of its
\* request has completed (stored, failed in the store, or refused by the
\* foreign key because the link was deleted after the lookup); the Click
\* rows of a link are at every instant at least as many as the 302s sent for
\* it whose insert neither failed in the store nor met a deleted link, and a
\* refused insert is one whose link is no longer stored.
C12_ClickBeforeRedirectUnlessDeleted ==
  /\ \A r \in Requests :
       reqs[r].status = 302 => reqs[r].insert \in {"ok", "store", "fk"}
  /\ \A id \in LinkIds :
       Cardinality(ClicksOf(id)) >=
         Cardinality({r \in RedirectsOf(id) :
                        reqs[r].insert \notin {"store", "fk"}})
  /\ \A r \in Requests :
       reqs[r].insert = "fk" => ~\E l \in links : l.id = reqs[r].link.id

\* One request has its 302 and its Click row while another request for the
\* same link is still waiting for its insert.
C12_Witness ==
  \E r, o \in Requests :
    /\ reqs[r].status = 302 /\ reqs[r].insert = "ok"
    /\ ClicksOf(reqs[r].link.id) # {}
    /\ reqs[o].pc = "insert" /\ reqs[o].status = 0
    /\ reqs[o].link.id = reqs[r].link.id

\* C13: no two Link rows share a slug, and in every state a create or an
\* update (by the API key or by the admin) that would give a row the slug of
\* another stored row cannot change the store.
C13_SlugUnique ==
  /\ \A l1, l2 \in links : l1.slug = l2.slug => l1 = l2
  /\ \A l \in links :
       /\ ~ENABLED createLink(l.apiKeyId, "https://example.com/landing",
                              l.slug, NullStr, {}, "", "3f2a9c1e", 1, TRUE)
       /\ \A o \in links \ {l} :
            /\ ~ENABLED updateLink(o.apiKeyId, o.id, Undefined, l.slug,
                                   NullStr, {}, Undefined, 1, TRUE)
            /\ ~ENABLED updateAdminLink(o.id, Undefined, l.slug, NullStr, {},
                                        1, TRUE)

\* Two rows are stored under the two slugs, created one after the other
\* for different API keys and with different destinations.
C13_Witness ==
  \E l1, l2 \in links :
    /\ l1.id = 1 /\ l2.id = 2
    /\ l1.slug # l2.slug
    /\ l1.apiKeyId # l2.apiKeyId
    /\ l1.destination # l2.destination

\* C14: a POST /api/links that presents the key of an active ApiKey row and
\* a destination, the store not failing and the slug (supplied or
\* generated) not taken, is answered 200 with the id of a Link row that is
\* now stored.
C14_ValidKeyCreatesLink ==
  [][\A header \in {"key-1", "key-2"}, destination \in DestInputs,
       slug \in Slugs \cup {""} :
       (/\ nextLinkId <= MaxRows
        /\ ~slugTaken(IF slug # "" THEN slug ELSE "3f2a9c1e", 0)
        /\ PostApiLinks(header, destination, slug, NullStr, {}, "",
                        "3f2a9c1e", 1, TRUE, FALSE, TRUE))
         => /\ api'.status = 200
            /\ \E l \in links' \ links :
                 /\ l.id = api'.linkId
                 /\ l.destination = destination]_vars

\* The destinations that are syntactically valid URLs.
ValidUrl(d) == d \in Dests

\* C15: the destination of every stored Link is a syntactically valid URL.
C15_DestinationIsValidUrl == \A l \in links : ValidUrl(l.destination)

\* C16: the stored password of every Link is null or a salted hash, never
\* the plaintext a caller supplied to createLink, updateLink,
\* createAdminLink or updateAdminLink.
C16_PasswordNullOrHash ==
  \A l \in links :
    /\ l.password = NullStr \/ l.password.kind = "hash"
    /\ \A p \in PasswordInputs \ {NullStr} : l.password # p

\* Two rows are stored, one with the hash of a supplied password and one
\* with no password.
C16_Witness ==
  \E l1, l2 \in links :
    /\ l1.password = bcryptHash("hunter2", 1)
    /\ l2.password = NullStr

\* C17: every step leaves the Click rows already stored as they are, and a
\* Click row it inserts references exactly one Link row stored at that
\* instant, also when the link of a request was deleted after its lookup.
C17_ClicksAppendOnlyWithLink ==
  [][/\ clicks \subseteq clicks'
     /\ \A c \in clicks' \ clicks :
          Cardinality({l \in links : l.id = c.linkId}) = 1]_vars

\* The link of a request was deleted between its lookup and its insert:
\* the insert was refused and no Click row exists.
C17_Witness ==
  /\ clicks = {} /\ links = {}
  /\ \E r \in Requests :
       Answered(r) /\ reqs[r].insert = "fk" /\ reqs[r].link.id = 1

\* The cache held for the ip of the call an entry not older than the ttl.
HeldFresh(q) == \E e \in q.held : q.at - e.start <= CacheTtl

\* The ip of the call was last looked up with success, and cached, not
\* longer ago than the ttl.
SetWithinTtl(q) == \E t \in q.lastSetSeen : q.at - t <= CacheTtl

\* What C18 says of every call of lookup but the one sentence on a repeated
\* lookup within the ttl: the provider is called exactly when ip is not
\* empty and the cache holds no unexpired entry for it; an empty ip returns
\* null at once; a call that finds an unexpired entry returns its value; a
\* call made after the ttl of the latest successful lookup has elapsed
\* calls the provider.
LookupCallsProviderIffNoFreshEntry(q) ==
  /\ q.called <=> (q.ip # "" /\ ~HeldFresh(q))
  /\ q.ip = "" => q.pc = "done" /\ q.result = NoGeo
  /\ q.ip # "" /\ HeldFresh(q)
       => q.pc = "done" /\ \E e \in q.held : q.result = e.value
  /\ q.ip # "" /\ ~SetWithinTtl(q) => q.called

\* C18 as stated: the above, and a lookup within the ttl of a successful
\* lookup of the same ip does not call the provider.
C18_ProviderCalledIffNotCached ==
  \A k \in Lookups :
    lookups[k].pc # "new"
      => /\ LookupCallsProviderIffNoFreshEntry(lookups[k])
         /\ SetWithinTtl(lookups[k]) => ~lookups[k].called

\* C18 amended: a lookup within the ttl of a successful lookup of the same
\* ip does not call the provider as long as the cache still holds the entry,
\* that is unless the entry was evicted to make room for another ip.
C18_ProviderCalledIffNoFreshEntry ==
  \A k \in Lookups :
    lookups[k].pc # "new"
      => /\ LookupCallsProviderIffNoFreshEntry(lookups[k])
         /\ SetWithinTtl(lookups[k]) /\ lookups[k].held # {}
              => ~lookups[k].called

\* One lookup was answered from an entry exactly as old as the ttl, with no
\* call of the provider, and another, made after the ttl of the entry of
\* its ip had elapsed, has called the provider again.
C18_Witness ==
  \E j, k \in Lookups :
    /\ lookups[j].pc = "done" /\ ~lookups[j].called
    /\ \E e \in lookups[j].held :
         lookups[j].at - e.start = CacheTtl /\ lookups[j].result = e.value
    /\ lookups[k].called
    /\ \E e \in lookups[k].held : lookups[k].at - e.start > CacheTtl

\* C19: a step in which the provider call of a lookup settles with anything
\* but a success payload makes the lookup return null (its caller can go
\* on) and leaves the cache exactly as it was, so that a later lookup of the
\* ip finds no entry this call made.
C19_FailureReturnsNullUncached ==
  [][\A k \in Lookups :
       (/\ lookups[k].pc = "fetch"
        /\ lookups'[k].pc # "fetch"
        /\ lookups'[k].outcome # "success")
         => /\ lookups'[k].pc = "done"
            /\ lookups'[k].outcome \in ProviderOutcomes
            /\ lookups'[k].result = NoGeo
            /\ cache' = cache
            /\ lastSet' = lastSet]_vars

\* A lookup got a malformed payload and returned null; the cache holds an
\* entry of another ip and none of this one, and a second lookup of the
\* same ip, the provider never having answered with success for it, has
\* called the provider again.
C19_Witness ==
  \E j, k \in Lookups :
    /\ j # k
    /\ lookups[j].pc = "done" /\ lookups[j].outcome = "malformed"
    /\ lookups[j].result = NoGeo
    /\ cache # <<>> /\ lookups[j].ip \notin cacheIps(cache)
    /\ lastSet[lookups[j].ip] = {}
    /\ lookups[k].ip = lookups[j].ip /\ lookups[k].called

\* The ip of the entry whose latest use, by a get that hit or by a set, is
\* the oldest.
LruIp(c) ==
  c[CHOOSE i \in DOMAIN c : \A j \in DOMAIN c : c[i].used <= c[j].used].ip

\* C20: the cache never holds more than CacheMax entries, and a step that
\* stores the result of an ip the cache does not hold removes, when the
\* cache is full, the least recently used entry and no other, and nothing
\* when it is not full; the entries that stay are unchanged.
C20_CacheBoundedLruEviction ==
  [][/\ Len(cache) <= CacheMax /\ Len(cache') <= CacheMax
     /\ \A k \in Lookups :
          (/\ lookups[k].pc = "fetch"
           /\ lookups'[k].pc = "done"
           /\ lookups'[k].outcome = "success"
           /\ lookups[k].ip \notin cacheIps(cache))
            => /\ cacheIps(cache') =
                    (IF Len(cache) = CacheMax
                       THEN cacheIps(cache) \ {LruIp(cache)}
                       ELSE cacheIps(cache)) \cup {lookups[k].ip}
               /\ \A i \in cacheIps(cache) \cap cacheIps(cache') :
                    /\ entryOf(cache', i).start = entryOf(cache, i).start
                    /\ entryOf(cache', i).value = entryOf(cache, i).value]_vars

\* The result of a third ip was stored in a full cache: the entry evicted
\* is one stored later than an entry that stayed, which had been used by a
\* lookup since.
C20_Witness ==
  \E k \in Lookups :
    /\ lookups[k].pc = "done" /\ lookups[k].outcome = "success"
    /\ Len(cache) = CacheMax
    /\ \E b \in lookups[k].evicted, a \in cacheIps(cache) \ {lookups[k].ip} :
         \E ta \in lastSet[a], tb \in lastSet[b] : ta < tb

\* ------------------------------------------------------------------------
\* Pagination of GET /api/links: paginationMiddleware(20), listLinks
\* ------------------------------------------------------------------------
MaxQueryLen == 2    \* characters of a limit or offset query value
MaxOwned == 11      \* Link rows of the calling API key

DefaultLimit == 10
MaxLimit == 20

\* The characters query values are made of: a sign, digits, a letter.
QueryChars == {"-", "0", "1", "2", "x"}

RECURSIVE charSeqs(_)
charSeqs(n) ==
  IF n = 0 THEN {<<>>}
  ELSE LET shorter == charSeqs(n - 1)
       IN shorter \cup {Append(cs, c) : cs \in shorter, c \in QueryChars}

\* ?limit=..&offset=..: each is absent or a string (the empty one included).
QueryValues == {QUndefined} \cup {QString(cs) : cs \in charSeqs(MaxQueryLen)}

digitOf(c) ==
  CASE c = "0" -> 0 [] c = "1" -> 1 [] c = "2" -> 2 [] c = "3" -> 3
    [] c = "4" -> 4 [] c = "5" -> 5 [] c = "6" -> 6 [] c = "7" -> 7
    [] c = "8" -> 8 [] c = "9" -> 9

isDigit(c) == c \in {"0", "1", "2", "3", "4", "5", "6", "7", "8", "9"}

RECURSIVE leadingDigits(_)
leadingDigits(cs) ==
  IF cs = <<>> \/ ~isDigit(Head(cs)) THEN <<>>
  ELSE <<Head(cs)>> \o leadingDigits(Tail(cs))

RECURSIVE decimal(_, _)
decimal(ds, acc) ==
  IF ds = <<>> THEN acc ELSE decimal(Tail(ds), 10 * acc + digitOf(Head(ds)))

NaN == [nan |-> TRUE, n |-> 0]

\* parseInt(value, 10): the value is turned into a string (undefined gives
\* the word undefined), an optional sign is read, then the longest run of
\* decimal digits; without a digit the result is NaN. What follows the
\* digits is ignored. The query values here carry no white space.
parseInt(v) ==
  IF v.type = "number" THEN [nan |-> FALSE, n |-> v.n]
  ELSE IF v.type = "undefined" THEN NaN
  ELSE LET cs == v.chars
           signed == cs # <<>> /\ Head(cs) \in {"-", "+"}
           ds == leadingDigits(IF signed THEN Tail(cs) ELSE cs)
       IN IF ds = <<>> THEN NaN
          ELSE [nan |-> FALSE,
                n |-> IF Head(cs) = "-" THEN 0 - decimal(ds, 0)
                      ELSE decimal(ds, 0)]

\* paginationMiddleware, lines 11-16.
limitOf(limit, maxLimit) ==
  LET l == parseInt(limit)
  IN IF l.nan \/ l.n <= 0 THEN DefaultLimit
     ELSE IF l.n > maxLimit THEN maxLimit
     ELSE l.n

\* paginationMiddleware, lines 19-22.
offsetOf(offset) ==
  LET o == parseInt(offset)
  IN IF o.nan \/ o.n < 0 THEN 0 ELSE o.n

\* A GET /api/links request that apiKeyAuth and the feature gate have let
\* through reaches the middleware. writable tells whether req.query is a
\* property of the request, so that an assignment to req.query.limit is
\* seen by the next handler, or a getter that parses the query string anew
\* at each access, so that it is not: the framework release decides, and
\* none is pinned under src/.
PageRequest(limit, offset, owned, writable) ==
  /\ page.pc = "idle"
  /\ page' = [InitPage EXCEPT !.pc = "arrived", !.limit = limit,
                              !.offset = offset, !.owned = owned,
                              !.writable = writable]
  /\ UNCHANGED <<coreVars, userVars, subVars, schedVars>>

\* paginationMiddleware(maxLimit): req.query.limit = limit;
\* req.query.offset = offset; next().
paginationMiddleware(maxLimit) ==
  /\ page.pc = "arrived"
  /\ page' = [page EXCEPT
       !.pc = "paged",
       !.seenLimit = IF page.writable
                       THEN QNumber(limitOf(page.limit, maxLimit))
                       ELSE page.limit,
       !.seenOffset = IF page.writable THEN QNumber(offsetOf(page.offset))
                      ELSE page.offset]
  /\ UNCHANGED <<coreVars, userVars, subVars, schedVars>>

Min(a, b) == IF a < b THEN a ELSE b

\* prisma.link.findMany({where, skip, take, orderBy}): skip and take must
\* be integers when given; an omitted one (undefined) does not restrict.
findManyCount(owned, skip, take) ==
  LET after == IF skip.type = "undefined" THEN owned
               ELSE IF skip.n >= owned THEN 0 ELSE owned - skip.n
  IN IF take.type = "undefined" THEN after ELSE Min(take.n, after)

\* listLinks: const { limit, offset } = req.query; findMany and count
\* inside try, 400 from the catch.
listLinks(dbOk) ==
  /\ page.pc = "paged"
  /\ LET take == page.seenLimit
         skip == page.seenOffset
         valid == take.type # "string" /\ skip.type # "string"
     IN page' = IF dbOk /\ valid
                  THEN [page EXCEPT !.pc = "done", !.status = 200,
                          !.returned = findManyCount(page.owned, skip, take)]
                  ELSE [page EXCEPT !.pc = "done", !.status = 400]
  /\ UNCHANGED <<coreVars, userVars, subVars, schedVars>>

PageNext ==
  \/ /\ page.pc = "idle"
     /\ \E limit \in QueryValues, offset \in QueryValues,
           owned \in 0..MaxOwned, writable \in BOOLEAN :
          PageRequest(limit, offset, owned, writable)
  \/ paginationMiddleware(MaxLimit)
  \/ \E dbOk \in BOOLEAN : listLinks(dbOk)

PageSpec == Init /\ [][PageNext]_vars

\* ------------------------------------------------------------------------
\* Admin users: createAdminUser, deleteAdminUser of admin.controller
\* ------------------------------------------------------------------------
userByEmail(email) == {u \in users : u.email = email}

\* createAdminUser: findUnique by email (409 when taken), then create with
\* isAdmin: true. A failed call stores nothing.
createAdminUser(email, password, s, dbOk) ==
  /\ dbOk
  /\ Truthy(password)
  /\ userByEmail(email) = {}
  /\ users' = users \cup
       {[id |-> nextUserId, email |-> email, isAdmin |-> TRUE,
         password |-> bcryptHash(password.text, s),
         passwordResetToken |-> {}, passwordResetExpires |-> {}]}
  /\ nextUserId' = nextUserId + 1
  /\ UNCHANGED <<dels, issued, resets, answers>>
  /\ UNCHANGED <<coreVars, pageVars, subVars, schedVars>>

\* if (adminCount <= 1) return 400 "Cannot delete the last admin user"
isLastAdmin(adminCount) == adminCount <= 1

\* deleteAdminUser up to its first await: prisma.user.count({isAdmin: true})
\* and the guard on it. A slot whose call has ended takes the next call.
deleteAdminUserCount(d, id, dbOk) ==
  /\ dels[d].pc \in {"new", "done"}
  /\ LET adminCount == Cardinality({u \in users : u.isAdmin})
         q == [InitDel EXCEPT !.id = id, !.adminCount = adminCount]
     IN dels' = [dels EXCEPT ![d] =
          IF ~dbOk THEN [q EXCEPT !.pc = "done", !.status = 500]
          ELSE IF isLastAdmin(adminCount)
            THEN [q EXCEPT !.pc = "done", !.status = 400]
          ELSE [q EXCEPT !.pc = "delete"]]
  /\ UNCHANGED <<users, nextUserId, issued, resets, answers>>
  /\ UNCHANGED <<coreVars, pageVars, subVars, schedVars>>

\* deleteAdminUser after the count: prisma.user.delete({where: {id}}), P2025
\* (no such row) answered 404, any other failure 500.
deleteAdminUserDelete(d, dbOk) ==
  /\ dels[d].pc = "delete"
  /\ LET row == {u \in users : u.id = dels[d].id}
     IN IF ~dbOk
          THEN /\ dels' = [dels EXCEPT ![d].pc = "done", ![d].status = 500]
               /\ UNCHANGED users
        ELSE IF row = {}
          THEN /\ dels' = [dels EXCEPT ![d].pc = "done", ![d].status = 404]
               /\ UNCHANGED users
        ELSE /\ users' = users \ row
             /\ dels' = [dels EXCEPT ![d].pc = "done", ![d].status = 200]
  /\ UNCHANGED <<nextUserId, issued, resets, answers>>
  /\ UNCHANGED <<coreVars, pageVars, subVars, schedVars>>

AdminNext ==
  \/ \E email \in Emails, password \in PasswordInputs, s \in Salts,
        dbOk \in BOOLEAN :
       /\ nextUserId <= MaxUsers
       /\ createAdminUser(email, password, s, dbOk)
  \/ \E d \in Deletes, id \in UserIds, dbOk \in BOOLEAN :
       deleteAdminUserCount(d, id, dbOk)
  \/ \E d \in Deletes, dbOk \in BOOLEAN : deleteAdminUserDelete(d, dbOk)

AdminSpec == Init /\ [][AdminNext]_vars

\* ------------------------------------------------------------------------
\* Password reset: requestPasswordReset, resetPassword of
\* password.controller
\* ------------------------------------------------------------------------
MinPasswordLength == 8

\* crypto.createHash('sha256').update(token).digest('hex')
sha256Hex(token) == [sha256 |-> token]

\* crypto.randomBytes(32).toString('hex'): a token no earlier call has
\* drawn; the n-th token drawn is written n.
randomToken == Len(issued) + 1

NewPasswords == {"short", "correct horse"}

\* The tokens a caller can present: none, one it was sent, or a guess (0).
TokenInputs == {{}} \cup {{n} : n \in 0..Len(issued)}

respond(status, body) == [status |-> status, body |-> body, linkId |-> 0]

\* requestPasswordReset: 400 without an e-mail, the same 200 for an unknown
\* e-mail; for a user, the hash of a fresh token and its expiry are stored
\* and the token is mailed; a failed store call answers 500.
requestPasswordReset(email, mailOk, dbOk) ==
  LET user == userByEmail(email)
      answer(existed, r) ==
        answers' = answers \cup
          {[existed |-> existed, status |-> r.status, body |-> r.body]}
  IN /\ IF email = ""
          THEN /\ api' = respond(400, "{error:Email is required}")
               /\ UNCHANGED <<users, issued, answers>>
        ELSE IF ~dbOk
          THEN /\ api' = respond(500, "{error:Failed to request password reset}")
               /\ UNCHANGED <<users, issued, answers>>
        ELSE IF user = {}
          THEN LET r == respond(200,
                 "{message:If the email exists, a password reset link has been sent}")
               IN /\ api' = r
                  /\ answer(FALSE, r)
                  /\ UNCHANGED <<users, issued>>
        ELSE LET u == CHOOSE u \in user : TRUE
                 r == respond(200,
                        IF mailOk
                          THEN "{message:Password reset link sent to your email}"
                          ELSE "{message:Password reset token generated}")
             IN /\ users' = (users \ {u}) \cup
                     {[u EXCEPT
                        !.passwordResetToken = {sha256Hex(randomToken)},
                        !.passwordResetExpires = {now + ResetTtl}]}
                /\ issued' = Append(issued,
                     [userId |-> u.id, at |-> now, accepted |-> 0])
                /\ api' = r
                /\ answer(TRUE, r)
     /\ UNCHANGED <<nextUserId, dels, resets>>
     /\ UNCHANGED <<storeVars, pageVars, subVars, schedVars>>

\* prisma.user.findFirst({where: {passwordResetToken: hashedToken,
\* passwordResetExpires: {gt: new Date()}}})
findByResetToken(hashedToken) ==
  {u \in users : /\ u.passwordResetToken = {hashedToken}
                 /\ \E e \in u.passwordResetExpires : e > now}

\* resetPassword up to its lookup: the checks of the body, then findFirst;
\* 400 when no user holds the token unexpired. A slot whose call has ended
\* takes the next call.
resetPasswordFind(k, token, newPassword, dbOk) ==
  /\ resets[k].pc \in {"new", "done"}
  /\ LET q == [InitReset EXCEPT !.token = token, !.newPassword = newPassword]
         end(st) == [q EXCEPT !.pc = "done", !.status = st,
                              !.newPassword = ""]
         found == IF token = {} THEN {}
                  ELSE findByResetToken(sha256Hex(CHOOSE n \in token : TRUE))
     IN resets' = [resets EXCEPT ![k] =
          IF token = {} \/ newPassword = "" THEN end(400)
          ELSE IF Len(newPassword) < MinPasswordLength THEN end(400)
          ELSE IF ~dbOk THEN end(500)
          ELSE IF found = {} THEN end(400)
          ELSE [q EXCEPT !.pc = "update",
                         !.userId = (CHOOSE u \in found : TRUE).id,
                         !.foundAt = now]]
  /\ UNCHANGED <<users, nextUserId, dels, issued, answers>>
  /\ UNCHANGED <<coreVars, pageVars, subVars, schedVars>>

\* resetPassword after the lookup: bcrypt.hash, then prisma.user.update by
\* id setting the password and clearing the token and its expiry.
resetPasswordUpdate(k, s, dbOk) ==
  /\ resets[k].pc = "update"
  /\ LET row == {u \in users : u.id = resets[k].userId}
         n == CHOOSE n \in resets[k].token : TRUE
     IN IF ~dbOk \/ row = {}
          THEN /\ resets' = [resets EXCEPT ![k].pc = "done",
                                            ![k].status = 500,
                                            ![k].newPassword = ""]
               /\ UNCHANGED <<users, issued>>
        ELSE LET u == CHOOSE u \in row : TRUE
             IN /\ users' = (users \ {u}) \cup
                     {[u EXCEPT
                        !.password = bcryptHash(resets[k].newPassword, s),
                        !.passwordResetToken = {},
                        !.passwordResetExpires = {}]}
                /\ issued' = [issued EXCEPT ![n].accepted = @ + 1]
                /\ resets' = [resets EXCEPT
                     ![k].pc = "done", ![k].status = 200,
                     ![k].newPassword = "",
                     ![k].latest =
                       \A m \in DOMAIN issued :
                         issued[m].userId = issued[n].userId => m <= n]
  /\ UNCHANGED <<nextUserId, dels, answers>>
  /\ UNCHANGED <<coreVars, pageVars, subVars, schedVars>>

\* The e-mail of the one account of this specification, and the e-mails
\* submitted to requestPasswordReset: that one, one of no account, none.
AccountEmails == {"ada@example.com"}
SubmittedEmails == {"ada@example.com", "bob@example.com", ""}

ResetNext ==
  \/ Tick
  \/ \E email \in AccountEmails, password \in PasswordInputs, s \in Salts,
        dbOk \in BOOLEAN :
       /\ nextUserId <= MaxUsers
       /\ createAdminUser(email, password, s, dbOk)
  \/ \E email \in SubmittedEmails, mailOk \in BOOLEAN, dbOk \in BOOLEAN :
       /\ Len(issued) < MaxTokens
       /\ requestPasswordReset(email, mailOk, dbOk)
  \/ \E k \in Resets, token \in TokenInputs, newPassword \in NewPasswords,
        dbOk \in BOOLEAN :
       resetPasswordFind(k, token, newPassword, dbOk)
  \/ \E k \in Resets, s \in Salts, dbOk \in BOOLEAN :
       resetPasswordUpdate(k, s, dbOk)

ResetSpec == Init /\ [][ResetNext]_vars

\* ------------------------------------------------------------------------
\* Subscriptions: subscription.service and stripe.service over the
\* Subscription table and the payment provider
\* ------------------------------------------------------------------------
PlanIds == {"pro", "platinum"}

\* getPricingTier(planId): pricingTiers[planId], undefined for an unknown id.
getPricingTier(planId) == planId \in {"free", "starter", "pro", "enterprise"}

\* where: {userId, status: {in: ['active', 'trialing']}}
activeOf(userId) ==
  {r \in subs : r.userId = userId /\ r.status \in {"active", "trialing"}}

\* The status the provider gives a new subscription.
NewStatuses == {"active", "trialing", "incomplete"}

\* The statuses a customer.subscription.updated event can report for a
\* subscription that is not cancelled.
LiveStatuses == {"active", "past_due"}

\* if (existingSubscription) throw 'User already has an active subscription'
hasActive(userId) == activeOf(userId) # {}

\* SubscriptionService.createSubscription up to the call of stripe.service:
\* the check for an existing active or trialing row, then the pricing tier.
\* A slot whose call has ended takes the next call.
createSubscriptionCheck(c, userId, planId, dbOk) ==
  /\ creates[c].pc \in {"new", "done"}
  /\ LET q == [InitCreate EXCEPT !.userId = userId, !.planId = planId]
         fail(e) == [q EXCEPT !.pc = "done", !.error = e]
     IN creates' = [creates EXCEPT ![c] =
          IF ~dbOk THEN fail("store")
          ELSE IF hasActive(userId)
            THEN fail("User already has an active subscription")
          ELSE IF ~getPricingTier(planId) THEN fail("Invalid pricing tier")
          ELSE [q EXCEPT !.pc = "customer"]]
  /\ UNCHANGED <<subs, stripeSubs, customers, reactLog>>
  /\ UNCHANGED <<coreVars, pageVars, userVars, schedVars>>

\* stripe.service createSubscription up to createOrGetCustomer: the user is
\* looked up, then the customer of a Subscription row of the user is
\* retrieved, or a new customer created when the user has no row.
createOrGetCustomer(c, dbOk) ==
  /\ creates[c].pc = "customer"
  /\ LET userId == creates[c].userId
         rows == {r \in subs : r.userId = userId}
     IN IF ~dbOk \/ {u \in users : u.id = userId} = {}
          THEN /\ creates' = [creates EXCEPT
                    ![c].pc = "done",
                    ![c].error = "Failed to create subscription"]
               /\ UNCHANGED customers
        ELSE IF rows # {}
          THEN /\ \E r \in rows :
                    creates' = [creates EXCEPT
                      ![c].pc = "stripe", ![c].customer = r.stripeCustomerId]
               /\ UNCHANGED customers
        ELSE /\ customers' = customers + 1
             /\ creates' = [creates EXCEPT ![c].pc = "stripe",
                                            ![c].customer = customers + 1]
  /\ UNCHANGED <<subs, stripeSubs, reactLog>>
  /\ UNCHANGED <<coreVars, pageVars, userVars, schedVars>>

\* stripe.service createSubscription from stripe.subscriptions.create on:
\* the provider creates the subscription, then prisma.subscription.create
\* stores the row; the insert fails on the unique index of
\* stripeCustomerId and on the foreign key of userId.
createSubscriptionStore(c, status, dbOk) ==
  /\ creates[c].pc = "stripe"
  /\ LET q == creates[c]
         sid == Len(stripeSubs) + 1
         inserts == /\ dbOk
                    /\ \A r \in subs : r.stripeCustomerId # q.customer
                    /\ \E u \in users : u.id = q.userId
     IN /\ stripeSubs' = Append(stripeSubs,
             [customer |-> q.customer, status |-> status,
              cancelAtPeriodEnd |-> FALSE])
        /\ IF inserts
             THEN /\ subs' = subs \cup
                       {[id |-> Cardinality(subs) + 1, userId |-> q.userId,
                         planId |-> q.planId, status |-> status,
                         cancelAtPeriodEnd |-> FALSE,
                         stripeSubscriptionId |-> sid,
                         stripeCustomerId |-> q.customer]}
                  /\ creates' = [creates EXCEPT ![c].pc = "done"]
             ELSE /\ creates' = [creates EXCEPT
                       ![c].pc = "done",
                       ![c].error = "Failed to create subscription"]
                  /\ UNCHANGED subs
  /\ UNCHANGED <<customers, reactLog>>
  /\ UNCHANGED <<coreVars, pageVars, userVars, schedVars>>

\* stripe.subscriptions.update(id, {cancel_at_period_end}): the provider
\* refuses to update a subscription it has cancelled.
stripeUpdate(sid, cancelAtPeriodEnd) ==
  [stripeSubs EXCEPT ![sid].cancelAtPeriodEnd = cancelAtPeriodEnd]

\* cancelSubscription(userId, cancelAtPeriodEnd): the active or trialing
\* row of the user, the update at the provider, then the update of the row.
\* A call that throws changes nothing.
cancelSubscription(userId, cancelAtPeriodEnd) ==
  /\ \E r \in activeOf(userId) :
       /\ stripeSubs[r.stripeSubscriptionId].status # "canceled"
       /\ stripeSubs' = stripeUpdate(r.stripeSubscriptionId, cancelAtPeriodEnd)
       /\ subs' = (subs \ {r}) \cup
            {[r EXCEPT !.cancelAtPeriodEnd = cancelAtPeriodEnd,
                       !.status = IF cancelAtPeriodEnd THEN "active"
                                  ELSE "canceled"]}
  /\ UNCHANGED <<customers, creates, reactLog>>
  /\ UNCHANGED <<coreVars, pageVars, userVars, schedVars>>

\* findFirst({where: {userId, cancelAtPeriodEnd: true}})
reactivable(userId) ==
  {r \in subs : r.userId = userId /\ r.cancelAtPeriodEnd}

\* reactivateSubscription(userId): a row of the user pending cancellation,
\* the update at the provider, then the row is written with
\* cancelAtPeriodEnd false and status active. A call that throws changes
\* nothing.
reactivateSubscription(userId) ==
  /\ \E r \in reactivable(userId) :
       /\ stripeSubs[r.stripeSubscriptionId].status # "canceled"
       /\ stripeSubs' = stripeUpdate(r.stripeSubscriptionId, FALSE)
       /\ subs' = (subs \ {r}) \cup
            {[r EXCEPT !.cancelAtPeriodEnd = FALSE, !.status = "active"]}
       /\ reactLog' = reactLog \cup
            {[status |-> r.status, cancelAtPeriodEnd |-> r.cancelAtPeriodEnd]}
  /\ UNCHANGED <<customers, creates>>
  /\ UNCHANGED <<coreVars, pageVars, userVars, schedVars>>

\* customer.subscription.updated: the provider reports the status of a
\* subscription it has not cancelled; handleSubscriptionUpdated copies
\* status and cancel_at_period_end to the row of that subscription.
handleSubscriptionUpdated(sid, status) ==
  /\ sid \in DOMAIN stripeSubs
  /\ stripeSubs[sid].status # "canceled"
  /\ stripeSubs' = [stripeSubs EXCEPT ![sid].status = status]
  /\ subs' = {IF r.stripeSubscriptionId = sid
                THEN [r EXCEPT
                       !.status = status,
                       !.cancelAtPeriodEnd = stripeSubs[sid].cancelAtPeriodEnd]
                ELSE r : r \in subs}
  /\ UNCHANGED <<customers, creates, reactLog>>
  /\ UNCHANGED <<coreVars, pageVars, userVars, schedVars>>

\* customer.subscription.deleted: the provider has cancelled the
\* subscription (at the end of the period or at once);
\* handleSubscriptionDeleted sets the status of its row to canceled.
handleSubscriptionDeleted(sid) ==
  /\ sid \in DOMAIN stripeSubs
  /\ stripeSubs[sid].status # "canceled"
  /\ stripeSubs' = [stripeSubs EXCEPT ![sid].status = "canceled"]
  /\ subs' = {IF r.stripeSubscriptionId = sid
                THEN [r EXCEPT !.status = "canceled"] ELSE r : r \in subs}
  /\ UNCHANGED <<customers, creates, reactLog>>
  /\ UNCHANGED <<coreVars, pageVars, userVars, schedVars>>

StripeIds == 1..MaxStripeSubs

SubNext ==
  \/ \E email \in AccountEmails, s \in Salts :
       /\ nextUserId <= MaxUsers
       /\ createAdminUser(email, Plain("hunter2"), s, TRUE)
  \/ \E c \in Creates, userId \in {1}, planId \in PlanIds, dbOk \in BOOLEAN :
       createSubscriptionCheck(c, userId, planId, dbOk)
  \/ \E c \in Creates, dbOk \in BOOLEAN : createOrGetCustomer(c, dbOk)
  \/ \E c \in Creates, status \in NewStatuses, dbOk \in BOOLEAN :
       /\ Len(stripeSubs) < MaxStripeSubs
       /\ createSubscriptionStore(c, status, dbOk)
  \/ \E userId \in {1}, cancelAtPeriodEnd \in BOOLEAN :
       cancelSubscription(userId, cancelAtPeriodEnd)
  \/ \E userId \in {1} : reactivateSubscription(userId)
  \/ \E sid \in StripeIds, status \in LiveStatuses :
       handleSubscriptionUpdated(sid, status)
  \/ \E sid \in StripeIds : handleSubscriptionDeleted(sid)

SubSpec == Init /\ [][SubNext]_vars

\* ------------------------------------------------------------------------
\* Scheduled reports (scheduled-reports.service)
\* ------------------------------------------------------------------------
ScheduleIds == 1..MaxSchedules
Runs == 1..MaxRuns
ReportEmails == {"ops@example.com"}

\* The frequency of the body of POST /api/reports/schedule, and of the
\* updates of updateScheduledReport: "" stands for a field left out.
FrequencyInputs == {"daily", "weekly"}
FrequencyUpdates == {"", "monthly", "yearly"}
EmailUpdates == {"", "cfo@example.com"}

\* getCronExpression(frequency, time) for the default time '09:00': the
\* expression, or nothing when it throws 'Invalid frequency'.
getCronExpression(frequency) ==
  CASE frequency = "daily" -> {"00 09 * * *"}
    [] frequency = "weekly" -> {"00 09 * * 1"}
    [] frequency = "monthly" -> {"00 09 1 * *"}
    [] OTHER -> {}

\* this.scheduledJobs.get(scheduleId): the entry, or nothing.
jobDataOf(scheduleId) == {d \in scheduledJobs : d.scheduleId = scheduleId}

\* this.scheduledJobs.set(scheduleId, data)
mapSet(scheduleId, data) ==
  (scheduledJobs \ jobDataOf(scheduleId)) \cup {data}

\* cron.schedule(cronExpression, () => executeScheduledReport(id, options)):
\* the list of tasks with the new one, which is running.
cronSchedule(jobs, expression, scheduleId, options) ==
  Append(jobs, [expression |-> expression, scheduleId |-> scheduleId,
                options |-> options, destroyed |-> FALSE])

\* job.destroy(): the task is stopped for good.
destroy(jobs, j) == [jobs EXCEPT ![j].destroyed = TRUE]

\* getScheduledReports(): the ids of the entries of the map.
getScheduledReports == {d.scheduleId : d \in scheduledJobs}

\* { ...jobData.options, ...updates }
mergeOptions(options, email, frequency) ==
  [email |-> IF email = "" THEN options.email ELSE email,
   frequency |-> IF frequency = "" THEN options.frequency ELSE frequency]

\* scheduleReport(options): a fresh id (Date.now() and nine random
\* characters), one cron job, one entry of the map; the id is returned.
scheduleReport(email, frequency) ==
  /\ nextScheduleId <= MaxSchedules
  /\ Len(cronJobs) < MaxJobs
  /\ LET id == nextScheduleId
         options == [email |-> email, frequency |-> frequency]
     IN IF getCronExpression(frequency) = {}
          THEN /\ ret' = [call |-> "schedule", scheduleId |-> 0,
                          present |-> FALSE, result |-> "throws"]
               /\ UNCHANGED <<scheduledJobs, nextScheduleId, cronJobs>>
          ELSE \E expression \in getCronExpression(frequency) :
                 /\ cronJobs' = cronSchedule(cronJobs, expression, id, options)
                 /\ scheduledJobs' =
                      mapSet(id, [scheduleId |-> id, job |-> Len(cronJobs) + 1,
                                  options |-> options, lastRun |-> "null"])
                 /\ nextScheduleId' = nextScheduleId + 1
                 /\ ret' = [call |-> "schedule", scheduleId |-> id,
                            present |-> FALSE, result |-> "id"]
  /\ UNCHANGED <<runs, mail>>
  /\ UNCHANGED <<coreVars, pageVars, userVars, subVars>>

\* cancelScheduledReport(scheduleId): destroys the job of the entry and
\* deletes the entry, true; false when the map has no such entry.
cancelScheduledReport(scheduleId) ==
  /\ IF jobDataOf(scheduleId) = {}
       THEN /\ ret' = [call |-> "cancel", scheduleId |-> scheduleId,
                       present |-> FALSE, result |-> "false"]
            /\ UNCHANGED <<scheduledJobs, cronJobs>>
       ELSE \E jobData \in jobDataOf(scheduleId) :
              /\ cronJobs' = destroy(cronJobs, jobData.job)
              /\ scheduledJobs' = scheduledJobs \ {jobData}
              /\ ret' = [call |-> "cancel", scheduleId |-> scheduleId,
                         present |-> TRUE, result |-> "true"]
  /\ UNCHANGED <<nextScheduleId, runs, mail>>
  /\ UNCHANGED <<coreVars, pageVars, userVars, subVars>>

\* updateScheduledReport(scheduleId, updates): throws when the map has no
\* such entry; otherwise destroys the job, then builds the cron expression
\* of the merged options, which throws for an invalid frequency, then
\* schedules the new job and stores it.
updateScheduledReport(scheduleId, email, frequency) ==
  /\ Len(cronJobs) < MaxJobs
  /\ IF jobDataOf(scheduleId) = {}
       THEN /\ ret' = [call |-> "update", scheduleId |-> scheduleId,
                       present |-> FALSE, result |-> "throws"]
            /\ UNCHANGED <<scheduledJobs, cronJobs>>
       ELSE \E jobData \in jobDataOf(scheduleId) :
              LET newOptions == mergeOptions(jobData.options, email, frequency)
                  stopped == destroy(cronJobs, jobData.job)
              IN IF getCronExpression(newOptions.frequency) = {}
                   THEN /\ cronJobs' = stopped
                        /\ ret' = [call |-> "update", scheduleId |-> scheduleId,
                                   present |-> TRUE, result |-> "throws"]
                        /\ UNCHANGED scheduledJobs
                   ELSE \E expression \in getCronExpression(newOptions.frequency) :
                          /\ cronJobs' = cronSchedule(stopped, expression,
                                                      scheduleId, newOptions)
                          /\ scheduledJobs' =
                               mapSet(scheduleId,
                                      [jobData EXCEPT !.job = Len(cronJobs) + 1,
                                                      !.options = newOptions])
                          /\ ret' = [call |-> "update", scheduleId |-> scheduleId,
                                     present |-> TRUE, result |-> "id"]
  /\ UNCHANGED <<nextScheduleId, runs, mail>>
  /\ UNCHANGED <<coreVars, pageVars, userVars, subVars>>

\* The cron job j fires: its callback calls executeScheduledReport with
\* the id and the options it was created with, which runs up to its first
\* await. A destroyed job does not fire.
cronFire(j, k) ==
  /\ j <= Len(cronJobs)
  /\ ~cronJobs[j].destroyed
  /\ runs[k].pc = "idle"
  /\ runs' = [runs EXCEPT ![k] = [pc |-> "running", job |-> j,
                                   scheduleId |-> cronJobs[j].scheduleId,
                                   options |-> cronJobs[j].options]]
  /\ UNCHANGED <<scheduledJobs, nextScheduleId, cronJobs, mail, ret>>
  /\ UNCHANGED <<coreVars, pageVars, userVars, subVars>>

\* executeScheduledReport after its awaits: with the data and the report
\* built it sends the report and, when the map still has the id, sets
\* lastRun; when a step threw, it sends the failure notice.
executeScheduledReport(k, ok) ==
  /\ runs[k].pc = "running"
  /\ mail' = [kind |-> IF ok THEN "report" ELSE "failure",
              to |-> runs[k].options.email,
              scheduleId |-> runs[k].scheduleId,
              jobDestroyed |-> cronJobs[runs[k].job].destroyed,
              listed |-> runs[k].scheduleId \in getScheduledReports]
  /\ scheduledJobs' =
       IF ok
         THEN {IF d.scheduleId = runs[k].scheduleId
                 THEN [d EXCEPT !.lastRun = "date"] ELSE d : d \in scheduledJobs}
         ELSE scheduledJobs
  /\ runs' = [runs EXCEPT ![k] = InitRun]
  /\ UNCHANGED <<nextScheduleId, cronJobs, ret>>
  /\ UNCHANGED <<coreVars, pageVars, userVars, subVars>>

SchedNext ==
  \/ \E email \in ReportEmails, frequency \in FrequencyInputs \cup {"yearly"} :
       scheduleReport(email, frequency)
  \/ \E scheduleId \in ScheduleIds : cancelScheduledReport(scheduleId)
  \/ \E scheduleId \in ScheduleIds, email \in EmailUpdates,
        frequency \in FrequencyUpdates :
       updateScheduledReport(scheduleId, email, frequency)
  \/ \E j \in 1..MaxJobs, k \in Runs : cronFire(j, k)
  \/ \E k \in Runs, ok \in BOOLEAN : executeScheduledReport(k, ok)

SchedSpec == Init /\ [][SchedNext]_vars

\* C21: every response to GET /health is 200 with the body {ok:true},
\* whichever links the store holds.
C21_HealthAlwaysOk ==
  \A r \in Requests :
    (reqs[r].slug = "health" /\ reqs[r].status # 0)
      => (reqs[r].status = 200 /\ reqs[r].body = "{ok:true}")

C23_LastAdminKept ==
  [][(\E u \in users : u.isAdmin) => (\E u \in users' : u.isAdmin)]_vars

\* C24: any two answers of requestPasswordReset are the same in status and
\* body, whether the e-mail submitted was that of a user or not.
C24_ResetRequestAnswerUniform ==
  \A a \in answers, b \in answers :
    (a.existed /\ ~b.existed) => (a.status = b.status /\ a.body = b.body)

\* C25: resetPassword accepts a token at most once, only within the hour
\* after the request that issued it, and only while no newer request has
\* been made for the same user.
C25_TokenAcceptedOnceInTime ==
  /\ \A n \in DOMAIN issued : issued[n].accepted <= 1
  /\ \A k \in Resets :
       resets[k].status = 200 =>
         LET n == CHOOSE n \in resets[k].token : TRUE
         IN /\ n \in DOMAIN issued
            /\ resets[k].foundAt < issued[n].at + ResetTtl
            /\ resets[k].latest

\* C26: each user has at most one Subscription row with status active or
\* trialing.
C26_OneActiveSubscription ==
  \A u \in UserIds : Cardinality(activeOf(u)) <= 1

\* C27: every row reactivateSubscription has set to active was, when it did
\* so, active or trialing and pending cancellation at period end; none was
\* canceled.
C27_ReactivatesOnlyLive ==
  \A e \in reactLog :
    e.status \in {"active", "trialing"} /\ e.cancelAtPeriodEnd

\* A step of updateLink, deleteLink or bulkDeleteLinks called with key
\* that changes the Link table.
StepByKey(key) ==
  /\ links' # links
  /\ \/ \E id \in RowIds :
          /\ api'.linkId = id
          /\ \/ \E destination \in DestUpdates, slug \in Slugs \cup {Undefined},
                   password \in PasswordInputs, expiresAt \in ExpiryInputs,
                   s \in Salts :
                  PutApiLinksId(key, id, destination, slug, password,
                                expiresAt, Undefined, s, TRUE)
             \/ DeleteApiLinksId(key, id, TRUE)
     \/ \E ids \in SUBSET RowIds : bulkDeleteLinks(key, ids, TRUE)

\* A step of updateLink or deleteLink called with key for the id of a link
\* of another key or of no link, the store not failing.
StepOnForeignId(key) ==
  \E id \in RowIds :
    /\ api'.linkId = id
    /\ whereIdAndKey(key, id) = {}
    /\ \/ PutApiLinksId(key, id, Undefined, Undefined, NullStr, {},
                         Undefined, 1, TRUE)
       \/ DeleteApiLinksId(key, id, TRUE)

\* C28: a step of updateLink, deleteLink or bulkDeleteLinks called with key
\* K leaves every Link of another key as it was; called for the id of a
\* foreign or unknown link, updateLink and deleteLink answer 404 and
\* leave all links as they were.
C28_ForeignLinksUntouched ==
  [][\A key \in OwnerKeys :
       /\ StepByKey(key) =>
            \A l \in links : l.apiKeyId # key => l \in links'
       /\ StepOnForeignId(key) => (api'.status = 404 /\ links' = links)]_vars

\* C28 witness: a call has been answered 404 for the id of a link that is
\* stored, and a bulk delete that named both ids has deleted one link
\* while a link of the other key is still stored.
C28_Witness ==
  \/ /\ api.status = 404
     /\ \E l \in links : l.id = api.linkId
  \/ /\ api.body = "{deleted}"
     /\ api.deleted = 1
     /\ links # {}

\* A successful update of link id by PUT /api/links/:id or by updateAdminLink
\* whose body carries this password and this expiresAt.
UpdateStep(id, password, expiresAt) ==
  /\ \E l \in links : l.id = id
  /\ nextLinkId' = nextLinkId
  /\ \A l \in links : l.id # id => l \in links'
  /\ \E s \in Salts :
       \/ \E key \in OwnerKeys, destination \in DestUpdates,
             slug \in Slugs \cup {Undefined} :
            /\ api'.status = 200
            /\ api'.linkId = id
            /\ PutApiLinksId(key, id, destination, slug, password, expiresAt,
                             Undefined, s, TRUE)
       \/ updateAdminLink(id, Undefined, Undefined, password, expiresAt, s, TRUE)

\* The row of link id after the step.
RowAfter(id) == {l \in links' : l.id = id}

liveJobs(scheduleId) ==
  {j \in 1..Len(cronJobs) :
     cronJobs[j].scheduleId = scheduleId /\ ~cronJobs[j].destroyed}

\* The ids scheduleReport has returned, and those of them a cancel has
\* removed: ids are handed out in order and an entry leaves the map only
\* in cancelScheduledReport.
everScheduled == 1..(nextScheduleId - 1)

\* C30: the ids getScheduledReports returns are those scheduled, each with
\* exactly one live cron job, which is the job of its entry;
\* cancelScheduledReport returns true iff the id was present; no report is
\* sent by a job that has been destroyed or for an id that is no longer
\* listed, also when the execution was in flight at the cancel or update.
C30_ScheduledReportsConsistent ==
  /\ getScheduledReports \subseteq everScheduled
  /\ \A d \in scheduledJobs : liveJobs(d.scheduleId) = {d.job}
  /\ \A id \in everScheduled \ getScheduledReports : liveJobs(id) = {}
  /\ ret.call = "cancel" => (ret.result = "true" <=> ret.present)
  /\ ret.call = "cancel" /\ ret.present => ret.scheduleId \notin getScheduledReports
  /\ mail.kind = "report" => (~mail.jobDestroyed /\ mail.listed)

====
